---- MODULE Spec2Model ----
(***************************************************************************)
(* Payment-gated session orchestration of Foldspace.                       *)
(*                                                                         *)
(* Three services keep sessions:                                           *)
(*   - SessionService (with T2VOrchestrator and T2VApiClient): sessions in *)
(*     an in-memory map, confirmation through confirmPayment, and a status *)
(*     poller per session;                                                 *)
(*   - the proxy's PaymentCoordinator (with FileSessionStore, the          *)
(*     X402Facilitator and SamsarClient): confirmation through             *)
(*     recordWalletEvent;                                                  *)
(*   - PaymentListenerService: sessions that wait for an on-chain          *)
(*     transfer, found by a polling worker per network (pollNetwork) and   *)
(*     confirmed through handlePaymentDetected.                            *)
(* They are separate processes that share no state: `variant` says which   *)
(* one a behaviour is of.                                                  *)
(*                                                                         *)
(* Every `await` on I/O (the facilitator, the provider, the notification   *)
(* sink, the session file) is a point where other handlers run: a handler  *)
(* is one action per stretch of code between two such points, and an       *)
(* invocation in flight is an element of a bag with its position `pc` and  *)
(* the locals it captured.                                                 *)
(***************************************************************************)
EXTENDS Integers, Sequences, FiniteSets, Bags, TLC

VARIABLES
    variant,        \* "SessionService", "PaymentCoordinator" or "PaymentListenerService"
    sessions,       \* SessionService.sessions : id -> SessionRecord
    pollers,        \* SessionService.pollers  : id -> the timer's captured requestId
    confirms,       \* bag of confirmPayment invocations in flight
    polls,          \* bag of pollOnce invocations in flight
    cache,          \* FileSessionStore.cache : id -> SessionRecord
    behavior,       \* PaymentCoordinator.behavior (ProxyBehaviorConfig)
    walletEvents,   \* bag of recordWalletEvent invocations in flight
    issued,         \* number of request ids the provider has issued
    lastEvent,      \* the handler step taken last and its outcome
    paymentSessions,\* PaymentListenerService.sessions : id -> PaymentSession
    networkStates,  \* PaymentListenerService.networkStates : network -> NetworkState
    states,         \* the NetworkState objects created so far, by identity
    registrations,  \* registerPayment invocations in flight
    scans,          \* pollNetwork invocations in flight
    chain,          \* the blocks mined so far, each the Transfer logs it holds
    detections,     \* the handlePaymentDetected calls made so far
    initialized,    \* FileSessionStore.initialized
    file,           \* the session file: id -> SessionRecord, or ENOENT
    writeQueue,     \* FileSessionStore.writeQueue: its pending links, or rejected
    calls           \* the calls of init, insert and update, in the order made

vars == <<variant, sessions, pollers, confirms, polls, cache, behavior,
          walletEvents, issued, lastEvent, paymentSessions, networkStates,
          states, registrations, scans, chain, detections, initialized, file,
          writeQueue, calls>>

serviceVars == <<sessions, pollers, confirms, polls>>
proxyVars == <<cache, behavior, walletEvents>>
listenerVars == <<paymentSessions, networkStates, states, registrations, scans,
                  chain, detections>>

storeVars == <<initialized, file, writeQueue, calls>>

-----------------------------------------------------------------------------
(* Bounds *)

\* Longest history (events) list of a session; a handler starts only when the
\* entries it and the invocations in flight may append still fit.
MaxHistory == 6

\* Wallet events of a proxy session that pass recordWalletEvent's checks and do
\* not throw.
MaxWalletEvents == 2

\* The ids randomUUID hands out; a caller may name one before its session
\* exists.
SessionIds == {"s1"}

-----------------------------------------------------------------------------
(* Values *)

\* An absent value (undefined).
NoValue == "undefined"

Payloads == {"proofA"}

\* Values whose type the code tests (typeof): a string, a number, undefined.
\* A finite number is kept as its count of tenths, so that a number with a
\* fraction can be told from a whole one.
Str(text) == [type |-> "string", text |-> text]
Num(number) == [type |-> "number", tenths |-> 10 * number]
Tenths(n) == [type |-> "number", tenths |-> n]
NaN == [type |-> "number", nan |-> TRUE]
Infinity == [type |-> "number", infinity |-> TRUE]
Undefined == [type |-> "undefined"]

\* update.f ?? current, for an optional field f of an update object
Field(update, f, current) == IF f \in DOMAIN update THEN update[f] ELSE current

RequestIdOf(n) == "req-" \o ToString(n)

-----------------------------------------------------------------------------
(* Quote and requirement (src/models/t2v.ts, src/config/t2v.ts) *)

DEFAULT_DURATION_SECONDS == 30
MAX_DURATION_SECONDS == 180
DEFAULT_VIDEO_RATE == 10

Min(a, b) == IF a < b THEN a ELSE b

\* coerceDurationSeconds with Math.round in the place of Math.floor.
coerceDurationSecondsRounding(duration) ==
    IF duration.type # "number" \/ duration = NaN THEN DEFAULT_DURATION_SECONDS
    ELSE IF duration = Infinity THEN MAX_DURATION_SECONDS
    ELSE IF duration.tenths <= 0 THEN DEFAULT_DURATION_SECONDS
    ELSE Min((duration.tenths + 5) \div 10, MAX_DURATION_SECONDS)

\* The duration priced: the default for a value that is not a number, is NaN
\* or is not positive, else Math.min(Math.floor(duration), 180).
coerceDurationSeconds(duration) ==
    IF duration.type # "number" \/ duration = NaN THEN DEFAULT_DURATION_SECONDS
    ELSE IF duration = Infinity THEN MAX_DURATION_SECONDS
    ELSE IF duration.tenths <= 0 THEN DEFAULT_DURATION_SECONDS
    ELSE Min(duration.tenths \div 10, MAX_DURATION_SECONDS)

resolveVideoRate(model) ==
    CASE model = "VEO3.1I2V" -> 60
      [] model = "VEO3.1I2VFAST" -> 30
      [] model = "KLINGIMGTOVIDTURBO" -> 15
      [] model = "SORA2" -> 30
      [] model = "SORA2PRO" -> 70
      [] OTHER -> DEFAULT_VIDEO_RATE

\* Math.round(durationSeconds * rate * multiplier); the multiplier is 1.5 for
\* HUNYUAN and 1 otherwise, and Math.round rounds a half up.
calculateT2VCostBreakdown(input) ==
    LET durationSeconds == coerceDurationSeconds(Field(input, "duration", Undefined))
        videoModel == Field(input, "video_model", "RUNWAYML")
        imageModel == Field(input, "image_model", "GPTIMAGE1")
        rate == resolveVideoRate(videoModel)
    IN  [durationSeconds |-> durationSeconds,
         videoModel |-> videoModel,
         imageModel |-> imageModel,
         rateCreditsPerSecond |-> rate,
         totalCredits |-> IF imageModel = "HUNYUAN"
                          THEN (3 * durationSeconds * rate + 1) \div 2
                          ELSE durationSeconds * rate]

\* buildT2VPaymentConfig() with the environment's asset and pay-to address;
\* SessionService.createSession and the default T2VOrchestrator both build it.
paymentConfig ==
    [network |-> "base-sepolia", asset |-> "usdc", payTo |-> "0xAAA",
     pricePerCreditMinorUnits |-> 10000]

\* T2VOrchestrator.quote
quote(input) ==
    LET breakdown == calculateT2VCostBreakdown(input)
    IN  [totalCredits |-> breakdown.totalCredits,
         totalMinorUnits |-> breakdown.totalCredits * paymentConfig.pricePerCreditMinorUnits]

\* The inputs a create request carries.
Inputs ==
    { [prompt |-> "a", duration |-> Num(5)],
      [prompt |-> "b", image_model |-> "HUNYUAN", video_model |-> "KLINGIMGTOVIDTURBO"],
      [prompt |-> "c", duration |-> Num(5), image_model |-> "HUNYUAN",
       video_model |-> "KLINGIMGTOVIDTURBO"] }

\* The requirement createSession builds (amounts are BigInt values printed in
\* decimal, compared as the numbers they print).
sessionRequirement(input) ==
    LET breakdown == calculateT2VCostBreakdown(input)
        totalMinorUnits == breakdown.totalCredits * paymentConfig.pricePerCreditMinorUnits
    IN  [scheme |-> "exact",
         network |-> paymentConfig.network,
         maxAmountRequired |-> totalMinorUnits,
         resource |-> "https://api.samsar.one/v1/video/create",
         payTo |-> paymentConfig.payTo,
         asset |-> paymentConfig.asset]

\* A buildQuoteSummary that prices the credits itself and cuts the half credit
\* off instead of rounding it.
buildQuoteSummaryTruncating(input, requirement) ==
    LET breakdown == calculateT2VCostBreakdown(input)
        credits == IF breakdown.imageModel = "HUNYUAN"
                   THEN (3 * breakdown.durationSeconds * breakdown.rateCreditsPerSecond) \div 2
                   ELSE breakdown.totalCredits
    IN  [asset |-> requirement.asset,
         network |-> requirement.network,
         totalCredits |-> credits,
         totalMinorUnits |-> credits * paymentConfig.pricePerCreditMinorUnits]

buildQuoteSummary(input, requirement) ==
    LET breakdown == calculateT2VCostBreakdown(input)
    IN  [asset |-> requirement.asset,
         network |-> requirement.network,
         totalCredits |-> breakdown.totalCredits,
         totalMinorUnits |-> requirement.maxAmountRequired]

\* What a caller may send as the requirement of `stored`: the stored terms, or
\* the stored terms with one field changed.
RequirementVariants(stored) ==
    { stored,
      [stored EXCEPT !.network = "base"],
      [stored EXCEPT !.asset = "other-asset"],
      [stored EXCEPT !.payTo = "0xBBB"],
      [stored EXCEPT !.maxAmountRequired = @ - 1],
      [stored EXCEPT !.scheme = "upto"],
      [stored EXCEPT !.resource = "https://elsewhere/create"] }

-----------------------------------------------------------------------------
(* Invocations in flight and the outcome of a handler step *)

\* The bag b with one copy of e added / removed.
Put(b, e) == b (+) SetToBag({e})
Take(b, e) == b (-) SetToBag({e})

\* What a confirmation has met so far: whether the session was terminal when it
\* began, and the answers of the verifier, the settler and the provider.
NoRun == [onTerminal |-> FALSE, verify |-> NoValue, settle |-> NoValue, submit |-> NoValue]
Started(onTerminal) == [NoRun EXCEPT !.onTerminal = onTerminal]

\* lastEvent after a handler step: the invocation threw, returned, or waits for
\* a collaborator.
Threw(op, step, sid, error, run) ==
    [op |-> op, step |-> step, sid |-> sid, outcome |-> "threw", error |-> error,
     run |-> run]
Returned(op, step, sid, session, run) ==
    [op |-> op, step |-> step, sid |-> sid, outcome |-> "returned", session |-> session,
     run |-> run]
Awaiting(op, step, sid) ==
    [op |-> op, step |-> step, sid |-> sid, outcome |-> "awaiting"]
\* pollOnce returned, having observed or produced a terminal status or not.
Polled(step, sid, observed) ==
    [op |-> "pollOnce", step |-> step, sid |-> sid, outcome |-> "returned",
     observed |-> observed]

RECURSIVE Copies(_, _)
\* How many elements of bag b, counted with their copies, are in the set S.
Copies(b, S) ==
    IF S = {} THEN 0
    ELSE LET e == CHOOSE x \in S : TRUE
         IN  CopiesIn(e, b) + Copies(b, S \ {e})

\* Invocations in flight of bag b for session sid at one of the positions pcs.
InFlight(b, sid, pcs) ==
    Copies(b, {e \in BagToSet(b) : e.sid = sid /\ e.pc \in pcs})

-----------------------------------------------------------------------------
(* SessionService (src/unnamed/part_009) with T2VOrchestrator *)

VerifyResponses == {"valid", "invalid", "throws"}
SettleResponses == {"success", "unsuccessful", "throws"}
CreateResponses == {"request_id", "no_request_id", "throws"}

\* What T2VApiClient.getStatus resolves to; "throws" is a rejected call.
StatusResponses ==
    { [status |-> "COMPLETED", url |-> "https://result/video.mp4"],
      [status |-> "COMPLETED"],
      [status |-> "FAILED", message |-> "render failed"],
      [status |-> "FAILED"],
      [status |-> "PROCESSING"],
      [message |-> "unknown request"] }

\* What AgentverseClient.sendChatMessage does with a notification.
SinkOutcomes == {"resolves", "throws"}

\* A notification whose error reaches the caller.
rethrows(sink) == IF sink = "throws" THEN "rejected" ELSE "resolved"

\* postAgentverseUpdate and notifyAgentverse as their callers see them: the
\* try/catch around sendChatMessage logs the error and the call resolves.
postAgentverseUpdate(sink) ==
    CASE sink = "resolves" -> "resolved"
      [] sink = "throws" -> "resolved"

notifyAgentverse(sink) ==
    CASE sink = "resolves" -> "resolved"
      [] sink = "throws" -> "resolved"

\* The error applyUpdate or createSession would throw if the notification's
\* error reached them.
SinkError == "Agentverse request failed"

\* The errors T2VApiClient.createVideo throws for a response that is not ok:
\* "T2V create failed (<status>): <body text>".
ProviderErrors ==
    {"T2V create failed (500): Internal Server Error",
     "T2V create failed (404): Not Found"}

ConfirmationOptions == [skipVerification : BOOLEAN, skipSettlement : BOOLEAN]

NewSession(sessionId, input) ==
    LET requirement == sessionRequirement(input)
    IN  [id |-> sessionId,
         status |-> "payment_pending",
         createdAt |-> 1,
         updatedAt |-> 1,
         input |-> input,
         quote |-> buildQuoteSummary(input, requirement),
         requirement |-> requirement,
         history |-> << [status |-> "payment_pending",
                         message |-> "Session created. Awaiting payment."] >>,
         samsarRequestId |-> NoValue,
         resultUrl |-> NoValue,
         failureReason |-> NoValue,
         lastPaymentPayload |-> NoValue]

\* The keys on which assertRequirementsMatch finds expected and actual to differ.
assertRequirementsMatch(expected, actual) ==
    {k \in {"asset", "network", "payTo", "maxAmountRequired"} : expected[k] # actual[k]}

\* A faulty applyUpdate that writes the entry over the last one of the history.
applyUpdateOverwriting(session, update, message) ==
    LET historyEntry == [status |-> Field(update, "status", session.status),
                         message |-> message]
    IN  [session EXCEPT
            !.status = Field(update, "status", @),
            !.samsarRequestId = Field(update, "samsarRequestId", @),
            !.resultUrl = Field(update, "resultUrl", @),
            !.failureReason = Field(update, "failureReason", @),
            !.lastPaymentPayload = Field(update, "lastPaymentPayload", @),
            !.history = [@ EXCEPT ![Len(@)] = historyEntry]]

\* A faulty applyUpdate that stamps createdAt as well.
applyUpdateRestamping(session, update, message) ==
    LET timestamp == Len(session.history) + 1
        historyEntry == [status |-> Field(update, "status", session.status),
                         message |-> message]
    IN  [session EXCEPT
            !.status = Field(update, "status", @),
            !.createdAt = timestamp,
            !.updatedAt = timestamp,
            !.samsarRequestId = Field(update, "samsarRequestId", @),
            !.resultUrl = Field(update, "resultUrl", @),
            !.failureReason = Field(update, "failureReason", @),
            !.lastPaymentPayload = Field(update, "lastPaymentPayload", @),
            !.requirement = Field(update, "requirement", @),
            !.history = Append(@, Field(update, "historyEntry", historyEntry))]

\* The synchronous part of applyUpdate: the record stored under the session id.
\* Timestamps are read off a clock that ticks with every entry written to the
\* session's history.
applyUpdate(session, update, message) ==
    LET timestamp == Len(session.history) + 1
        historyEntry == [status |-> Field(update, "status", session.status),
                         message |-> message]
    IN  [session EXCEPT
            !.status = Field(update, "status", @),
            !.updatedAt = timestamp,
            !.samsarRequestId = Field(update, "samsarRequestId", @),
            !.resultUrl = Field(update, "resultUrl", @),
            !.failureReason = Field(update, "failureReason", @),
            !.lastPaymentPayload = Field(update, "lastPaymentPayload", @),
            !.requirement = Field(update, "requirement", @),
            !.history = Append(@, Field(update, "historyEntry", historyEntry))]

\* submitLocalChecks without the comparison of the destination.
submitLocalChecksNoDestination(input, paymentRequirements) ==
    IF paymentRequirements.asset # paymentConfig.asset
    THEN "Payment asset does not match expected T2V configuration."
    ELSE IF paymentRequirements.network # paymentConfig.network
    THEN "Payment network does not match expected T2V configuration."
    ELSE IF paymentRequirements.maxAmountRequired < quote(input).totalMinorUnits
    THEN "Paid amount is lower than the expected T2V quote."
    ELSE "ok"

\* The checks submitPaidRequest makes before it calls anyone: the error it
\* throws, or "ok".
submitLocalChecks(input, paymentRequirements) ==
    IF paymentRequirements.asset # paymentConfig.asset
    THEN "Payment asset does not match expected T2V configuration."
    ELSE IF paymentRequirements.network # paymentConfig.network
    THEN "Payment network does not match expected T2V configuration."
    ELSE IF paymentRequirements.payTo # paymentConfig.payTo
    THEN "Payment destination does not match expected T2V configuration."
    ELSE IF paymentRequirements.maxAmountRequired < quote(input).totalMinorUnits
    THEN "Paid amount is lower than the expected T2V quote."
    ELSE "ok"

\* The collaborator submitPaidRequest calls first / after the verifier / after
\* the settler.
stageAfterChecks(options) ==
    IF ~options.skipVerification THEN "verify"
    ELSE IF ~options.skipSettlement THEN "settle" ELSE "submit"

\* The verifier's response is kept in verifyResponse and not looked at.
stageAfterVerify(skipSettlement, verifyResponse) ==
    IF ~skipSettlement THEN "settle" ELSE "submit"

stageAfterSettle(settleResponse) == "submit"

schedulePoll(timers, sessionId, requestId) ==
    IF sessionId \in DOMAIN timers THEN timers
    ELSE timers @@ (sessionId :> requestId)

\* A faulty stopPoll that clears the interval and keeps the map entry.
stopPollKeepingEntry(timers, sessionId) == timers

stopPoll(timers, sessionId) ==
    IF sessionId \in DOMAIN timers
    THEN [x \in DOMAIN timers \ {sessionId} |-> timers[x]]
    ELSE timers

pollOnceObservesTerminal(session) == session.status \in {"completed", "failed"}

\* The update pollOnce applies for a status response, and whether it then
\* stops the poller.
pollOnceUpdate(status) ==
    IF "status" \in DOMAIN status
    THEN IF status.status = "COMPLETED" /\ "url" \in DOMAIN status
         THEN [update |-> [status |-> "completed", resultUrl |-> status.url],
               message |-> "SamsarOne processing completed.", stop |-> TRUE]
         ELSE IF status.status = "FAILED"
         THEN LET failureReason == Field(status, "message", "SamsarOne reported a failure.")
              IN  [update |-> [status |-> "failed", failureReason |-> failureReason],
                   message |-> "SamsarOne processing failed: " \o failureReason,
                   stop |-> TRUE]
         ELSE [update |-> [status |-> "creation_in_progress"],
               message |-> "SamsarOne processing in progress.", stop |-> FALSE]
    ELSE [update |-> [status |-> "creation_in_progress"],
          message |-> "Received intermediate status response.", stop |-> FALSE]

\* History entries that invocations in flight for the session will still append.
Reserved(sid) ==
    InFlight(confirms, sid, {"verify", "settle", "submit"})
    + InFlight(polls, sid, {"status"})

Fits(sid, n) == Len(sessions[sid].history) + Reserved(sid) + n <= MaxHistory

\* createSession when its notification resolved: a fresh id, the session stored
\* in payment_pending and returned.
CreateSessionReturns(sid, input) ==
    /\ variant = "SessionService"
    /\ sid \notin DOMAIN sessions
    /\ sessions' = sessions @@ (sid :> NewSession(sid, input))
    /\ lastEvent' = Returned("createSession", "return", sid, NewSession(sid, input),
                             NoRun)
    /\ UNCHANGED <<variant, pollers, confirms, polls, issued, proxyVars, listenerVars, storeVars>>

\* createSession, were postAgentverseUpdate to reject: the session is stored and
\* the call throws.
CreateSessionThrows(sid, input) ==
    /\ variant = "SessionService"
    /\ sid \notin DOMAIN sessions
    /\ sessions' = sessions @@ (sid :> NewSession(sid, input))
    /\ lastEvent' = Threw("createSession", "notify", sid, SinkError, NoRun)
    /\ UNCHANGED <<variant, pollers, confirms, polls, issued, proxyVars, listenerVars, storeVars>>

\* createSession: the session is stored, the notification is awaited, and the
\* session is returned.
CreateSession(sid, input) ==
    \E sink \in SinkOutcomes :
        IF postAgentverseUpdate(sink) = "resolved"
        THEN CreateSessionReturns(sid, input)
        ELSE CreateSessionThrows(sid, input)

\* confirmPayment up to its first call to a collaborator: the lookup, the
\* requirement check, applyUpdate(payment_confirmed) and submitPaidRequest's
\* local checks.
ConfirmPaymentGoesOn(sid, payload, requirements, options) ==
    /\ variant = "SessionService"
    /\ IF sid \notin DOMAIN sessions
       THEN /\ lastEvent' = Threw("confirmPayment", "start", sid, "Session not found.",
                                  NoRun)
            /\ UNCHANGED <<sessions, confirms>>
       ELSE IF assertRequirementsMatch(sessions[sid].requirement, requirements) # {}
       THEN /\ lastEvent' = Threw("confirmPayment", "start", sid,
                                  "Payment requirements mismatch for session", NoRun)
            /\ UNCHANGED <<sessions, confirms>>
       ELSE /\ Fits(sid, 2)
            /\ sessions' = [sessions EXCEPT ![sid] =
                    applyUpdate(@, [status |-> "payment_confirmed",
                                    lastPaymentPayload |-> payload],
                                "Payment confirmed. Preparing SamsarOne request.")]
            /\ LET error == submitLocalChecks(sessions[sid].input, requirements)
                   stage == stageAfterChecks(options)
               IN  IF error # "ok"
                   THEN /\ lastEvent' = Threw("confirmPayment", "start", sid, error,
                                                  NoRun)
                        /\ UNCHANGED <<confirms>>
                   ELSE /\ confirms' = Put(confirms,
                                [sid |-> sid, pc |-> stage,
                                 skipSettlement |-> options.skipSettlement,
                                 run |-> Started(pollOnceObservesTerminal(sessions[sid]))])
                        /\ lastEvent' = Awaiting("confirmPayment", "start", sid)
    /\ UNCHANGED <<variant, pollers, polls, issued, proxyVars, listenerVars, storeVars>>

\* confirmPayment, were the notification of applyUpdate(payment_confirmed) to
\* reject: the update is stored and confirmPayment throws.
ConfirmPaymentThrows(sid, payload, requirements, options) ==
    IF sid \notin DOMAIN sessions
       \/ assertRequirementsMatch(sessions[sid].requirement, requirements) # {}
    THEN ConfirmPaymentGoesOn(sid, payload, requirements, options)
    ELSE /\ variant = "SessionService"
         /\ Fits(sid, 2)
         /\ sessions' = [sessions EXCEPT ![sid] =
                 applyUpdate(@, [status |-> "payment_confirmed",
                                 lastPaymentPayload |-> payload],
                             "Payment confirmed. Preparing SamsarOne request.")]
         /\ lastEvent' = Threw("confirmPayment", "notify", sid, SinkError, NoRun)
         /\ UNCHANGED <<variant, pollers, confirms, polls, issued, proxyVars, listenerVars, storeVars>>

\* confirmPayment up to its first call to a collaborator.
ConfirmPayment(sid, payload, requirements, options) ==
    \E sink \in SinkOutcomes :
        IF postAgentverseUpdate(sink) = "resolved"
        THEN ConfirmPaymentGoesOn(sid, payload, requirements, options)
        ELSE ConfirmPaymentThrows(sid, payload, requirements, options)

\* The verifier answers a confirmPayment waiting in submitPaidRequest.
ConfirmVerified(c, response) ==
    /\ variant = "SessionService"
    /\ c \in BagToSet(confirms) /\ c.pc = "verify"
    /\ IF response = "throws"
       THEN /\ confirms' = Take(confirms, c)
            /\ lastEvent' = Threw("confirmPayment", "verify", c.sid, "verify request failed",
                                  [c.run EXCEPT !.verify = response])
       ELSE LET stage == stageAfterVerify(c.skipSettlement, response)
            IN  /\ confirms' = Put(Take(confirms, c),
                        [c EXCEPT !.pc = stage, !.run.verify = response])
                /\ lastEvent' = Awaiting("confirmPayment", "verify", c.sid)
    /\ UNCHANGED <<variant, sessions, pollers, polls, issued, proxyVars, listenerVars, storeVars>>

\* The settler answers.
ConfirmSettled(c, response) ==
    /\ variant = "SessionService"
    /\ c \in BagToSet(confirms) /\ c.pc = "settle"
    /\ IF response = "throws"
       THEN /\ confirms' = Take(confirms, c)
            /\ lastEvent' = Threw("confirmPayment", "settle", c.sid, "settle request failed",
                                  [c.run EXCEPT !.settle = response])
       ELSE LET stage == stageAfterSettle(response)
            IN  /\ confirms' = Put(Take(confirms, c),
                        [c EXCEPT !.pc = stage, !.run.settle = response])
                /\ lastEvent' = Awaiting("confirmPayment", "settle", c.sid)
    /\ UNCHANGED <<variant, sessions, pollers, polls, issued, proxyVars, listenerVars, storeVars>>

\* createVideo answers: confirmPayment throws, or applies creation_pending.
ConfirmSubmittedGoesOn(c, response) ==
    /\ variant = "SessionService"
    /\ c \in BagToSet(confirms) /\ c.pc = "submit"
    /\ IF response = "throws"
       THEN /\ confirms' = Take(confirms, c)
            /\ \E error \in ProviderErrors :
                   lastEvent' = Threw("confirmPayment", "submit", c.sid, error,
                                      [c.run EXCEPT !.submit = response])
            /\ UNCHANGED <<sessions, issued>>
       ELSE IF response = "no_request_id"
       THEN /\ confirms' = Take(confirms, c)
            /\ lastEvent' = Threw("confirmPayment", "submit", c.sid,
                                  "SamsarOne response did not include a request_id.",
                                  [c.run EXCEPT !.submit = response])
            /\ UNCHANGED <<sessions, issued>>
       ELSE LET requestId == RequestIdOf(issued + 1)
                pendingSession ==
                    applyUpdate(sessions[c.sid],
                                [status |-> "creation_pending", samsarRequestId |-> requestId],
                                "SamsarOne request accepted.")
            IN  /\ issued' = issued + 1
                /\ sessions' = [sessions EXCEPT ![c.sid] = pendingSession]
                /\ confirms' = Put(Take(confirms, c),
                        [sid |-> c.sid, pc |-> "schedule", requestId |-> requestId,
                         pendingSession |-> pendingSession,
                         run |-> [c.run EXCEPT !.submit = response]])
                /\ lastEvent' = Awaiting("confirmPayment", "submit", c.sid)
    /\ UNCHANGED <<variant, pollers, polls, proxyVars, listenerVars, storeVars>>

\* confirmPayment, were the notification of applyUpdate(creation_pending) to
\* reject: the update is stored and confirmPayment throws before schedulePoll.
ConfirmSubmittedThrows(c, response) ==
    IF response # "request_id"
    THEN ConfirmSubmittedGoesOn(c, response)
    ELSE /\ variant = "SessionService"
         /\ c \in BagToSet(confirms) /\ c.pc = "submit"
         /\ issued' = issued + 1
         /\ sessions' = [sessions EXCEPT ![c.sid] =
                 applyUpdate(@, [status |-> "creation_pending",
                                 samsarRequestId |-> RequestIdOf(issued + 1)],
                             "SamsarOne request accepted.")]
         /\ confirms' = Take(confirms, c)
         /\ lastEvent' = Threw("confirmPayment", "notify", c.sid, SinkError,
                               [c.run EXCEPT !.submit = response])
         /\ UNCHANGED <<variant, pollers, polls, proxyVars, listenerVars, storeVars>>

\* createVideo answers a confirmPayment waiting in submitPaidRequest.
ConfirmSubmitted(c, response) ==
    \E sink \in SinkOutcomes :
        IF postAgentverseUpdate(sink) = "resolved"
        THEN ConfirmSubmittedGoesOn(c, response)
        ELSE ConfirmSubmittedThrows(c, response)

\* confirmPayment's end: schedulePoll and the return of pendingSession.
ConfirmReturn(c) ==
    /\ variant = "SessionService"
    /\ c \in BagToSet(confirms) /\ c.pc = "schedule"
    /\ pollers' = schedulePoll(pollers, c.sid, c.requestId)
    /\ confirms' = Take(confirms, c)
    /\ lastEvent' = Returned("confirmPayment", "schedule", c.sid, c.pendingSession,
                             c.run)
    /\ UNCHANGED <<variant, sessions, polls, issued, proxyVars, listenerVars, storeVars>>

\* An interval tick: pollOnce up to its getStatus call.
PollTick(sid) ==
    /\ variant = "SessionService"
    /\ sid \in DOMAIN pollers
    /\ IF sid \notin DOMAIN sessions \/ pollOnceObservesTerminal(sessions[sid])
       THEN /\ pollers' = stopPoll(pollers, sid)
            /\ lastEvent' = Polled("start", sid, "terminal")
            /\ UNCHANGED polls
       ELSE /\ Fits(sid, 1)
            /\ polls' = Put(polls, [sid |-> sid, requestId |-> pollers[sid], pc |-> "status"])
            /\ lastEvent' = Awaiting("pollOnce", "start", sid)
            /\ UNCHANGED pollers
    /\ UNCHANGED <<variant, sessions, confirms, issued, proxyVars, listenerVars, storeVars>>

\* getStatus answers a pollOnce: the update is applied.
PollStatusApplied(p, status) ==
    /\ variant = "SessionService"
    /\ p \in BagToSet(polls) /\ p.pc = "status"
    /\ LET u == pollOnceUpdate(status)
       IN  /\ sessions' = [sessions EXCEPT ![p.sid] = applyUpdate(@, u.update, u.message)]
           /\ IF u.stop
              THEN /\ polls' = Put(Take(polls, p), [p EXCEPT !.pc = "stop"])
                   /\ lastEvent' = Awaiting("pollOnce", "status", p.sid)
              ELSE /\ polls' = Take(polls, p)
                   /\ lastEvent' = Polled("status", p.sid, "in_progress")
    /\ UNCHANGED <<variant, pollers, confirms, issued, proxyVars, listenerVars, storeVars>>

\* pollOnce, were applyUpdate's notification to reject: the update is stored
\* and pollOnce rejects without stopPoll.
PollNotifyThrows(p, status) ==
    /\ variant = "SessionService"
    /\ p \in BagToSet(polls) /\ p.pc = "status"
    /\ LET u == pollOnceUpdate(status)
       IN  sessions' = [sessions EXCEPT ![p.sid] = applyUpdate(@, u.update, u.message)]
    /\ polls' = Take(polls, p)
    /\ lastEvent' = Threw("pollOnce", "notify", p.sid, SinkError, NoRun)
    /\ UNCHANGED <<variant, pollers, confirms, issued, proxyVars, listenerVars, storeVars>>

\* getStatus answers a pollOnce: applyUpdate stores the update and awaits its
\* notification.
PollStatus(p, status) ==
    \E sink \in SinkOutcomes :
        IF postAgentverseUpdate(sink) = "resolved"
        THEN PollStatusApplied(p, status)
        ELSE PollNotifyThrows(p, status)

\* getStatus rejects: pollOnce rejects and the timer's catch logs it.
PollStatusThrows(p) ==
    /\ variant = "SessionService"
    /\ p \in BagToSet(polls) /\ p.pc = "status"
    /\ polls' = Take(polls, p)
    /\ lastEvent' = Threw("pollOnce", "status", p.sid, "T2V status failed", NoRun)
    /\ UNCHANGED <<variant, sessions, pollers, confirms, issued, proxyVars, listenerVars, storeVars>>

\* pollOnce's end after a completed or failed update: stopPoll.
PollStop(p) ==
    /\ variant = "SessionService"
    /\ p \in BagToSet(polls) /\ p.pc = "stop"
    /\ pollers' = stopPoll(pollers, p.sid)
    /\ polls' = Take(polls, p)
    /\ lastEvent' = Polled("stop", p.sid, "terminal")
    /\ UNCHANGED <<variant, sessions, confirms, issued, proxyVars, listenerVars, storeVars>>

\* What callers send as the requirement of a session: variants of its stored
\* terms (of some session's terms when the id is unknown).
RequirementsFor(sid) ==
    IF sid \in DOMAIN sessions THEN RequirementVariants(sessions[sid].requirement)
    ELSE {sessionRequirement(i) : i \in Inputs}

ServiceNext ==
    \/ \E sid \in SessionIds, input \in Inputs : CreateSession(sid, input)
    \/ \E sid \in SessionIds, payload \in Payloads, options \in ConfirmationOptions :
         \E requirements \in RequirementsFor(sid) :
            ConfirmPayment(sid, payload, requirements, options)
    \/ \E c \in BagToSet(confirms), response \in VerifyResponses : ConfirmVerified(c, response)
    \/ \E c \in BagToSet(confirms), response \in SettleResponses : ConfirmSettled(c, response)
    \/ \E c \in BagToSet(confirms), response \in CreateResponses : ConfirmSubmitted(c, response)
    \/ \E c \in BagToSet(confirms) : ConfirmReturn(c)
    \/ \E sid \in SessionIds : PollTick(sid)
    \/ \E p \in BagToSet(polls), status \in StatusResponses : PollStatus(p, status)
    \/ \E p \in BagToSet(polls) : PollStatusThrows(p)
    \/ \E p \in BagToSet(polls) : PollStop(p)

-----------------------------------------------------------------------------
(* T2VOrchestrator.submitPaidRequest on its own (src/services/T2VOrchestrator.ts),
   called with any requirement.  A call in flight is an element of `confirms`
   with the calls it has made to the facilitator and the provider so far. *)

\* submitPaidRequest calls in flight at one time.
MaxSubmissions == 1

\* The locals of a submitPaidRequest call that has called no one yet.
Submission(input, paymentRequirements, options) ==
    [input |-> input, requirements |-> paymentRequirements, options |-> options,
     pc |-> "start", called |-> <<>>,
     verify |-> NoValue, settle |-> NoValue, submit |-> NoValue]

\* The requirements a caller passes with an input: the terms quoted for some
\* input, or these with one field changed.
SubmittedRequirements ==
    UNION { RequirementVariants(sessionRequirement(input)) : input \in Inputs }

\* submitPaidRequest up to its first call: the quote, the four comparisons and
\* the call of the verifier, the settler or the provider.
SubmitPaidRequest(input, paymentPayload, paymentRequirements, options) ==
    /\ variant = "T2VOrchestrator"
    /\ BagCardinality(confirms) < MaxSubmissions
    /\ LET error == submitLocalChecks(input, paymentRequirements)
           stage == stageAfterChecks(options)
           call == Submission(input, paymentRequirements, options)
       IN  IF error # "ok"
           THEN /\ lastEvent' = Threw("submitPaidRequest", "start", NoValue, error, call)
                /\ UNCHANGED confirms
           ELSE /\ confirms' = Put(confirms,
                        [call EXCEPT !.pc = stage, !.called = <<stage>>])
                /\ lastEvent' = Awaiting("submitPaidRequest", "start", NoValue)
    /\ UNCHANGED <<variant, sessions, pollers, polls, issued, proxyVars, listenerVars, storeVars>>

\* verifyPayment resolves or rejects.
SubmitVerified(c, response) ==
    /\ variant = "T2VOrchestrator"
    /\ c \in BagToSet(confirms) /\ c.pc = "verify"
    /\ IF response = "throws"
       THEN /\ confirms' = Take(confirms, c)
            /\ lastEvent' = Threw("submitPaidRequest", "verify", NoValue,
                                  "verify request failed", [c EXCEPT !.verify = response])
       ELSE LET stage == stageAfterVerify(c.options.skipSettlement, response)
            IN  /\ confirms' = Put(Take(confirms, c),
                        [c EXCEPT !.pc = stage, !.called = Append(@, stage),
                                  !.verify = response])
                /\ lastEvent' = Awaiting("submitPaidRequest", "verify", NoValue)
    /\ UNCHANGED <<variant, sessions, pollers, polls, issued, proxyVars, listenerVars, storeVars>>

\* settlePayment resolves or rejects.
SubmitSettled(c, response) ==
    /\ variant = "T2VOrchestrator"
    /\ c \in BagToSet(confirms) /\ c.pc = "settle"
    /\ IF response = "throws"
       THEN /\ confirms' = Take(confirms, c)
            /\ lastEvent' = Threw("submitPaidRequest", "settle", NoValue,
                                  "settle request failed", [c EXCEPT !.settle = response])
       ELSE LET stage == stageAfterSettle(response)
            IN  /\ confirms' = Put(Take(confirms, c),
                        [c EXCEPT !.pc = stage, !.called = Append(@, stage),
                                  !.settle = response])
                /\ lastEvent' = Awaiting("submitPaidRequest", "settle", NoValue)
    /\ UNCHANGED <<variant, sessions, pollers, polls, issued, proxyVars, listenerVars, storeVars>>

\* createVideo resolves or rejects: submitPaidRequest returns its result, with
\* the request id when the response has one, or throws.
SubmitCreated(c, response) ==
    /\ variant = "T2VOrchestrator"
    /\ c \in BagToSet(confirms) /\ c.pc = "submit"
    /\ confirms' = Take(confirms, c)
    /\ IF response = "throws"
       THEN \E error \in ProviderErrors :
               lastEvent' = Threw("submitPaidRequest", "submit", NoValue, error,
                                  [c EXCEPT !.submit = response])
       ELSE lastEvent' =
               Returned("submitPaidRequest", "submit", NoValue,
                        [quote |-> quote(c.input), requirement |-> c.requirements,
                         verifyResponse |-> c.verify, settleResponse |-> c.settle,
                         apiResponse |-> response,
                         requestId |-> IF response = "request_id"
                                       THEN RequestIdOf(issued + 1) ELSE NoValue],
                        [c EXCEPT !.submit = response])
    /\ UNCHANGED <<variant, sessions, pollers, polls, issued, proxyVars, listenerVars, storeVars>>

OrchestratorNext ==
    \/ \E input \in Inputs, payload \in Payloads, options \in ConfirmationOptions :
         \E requirements \in SubmittedRequirements :
            SubmitPaidRequest(input, payload, requirements, options)
    \/ \E c \in BagToSet(confirms), response \in VerifyResponses : SubmitVerified(c, response)
    \/ \E c \in BagToSet(confirms), response \in SettleResponses : SubmitSettled(c, response)
    \/ \E c \in BagToSet(confirms), response \in CreateResponses : SubmitCreated(c, response)

-----------------------------------------------------------------------------
(* The proxy: PaymentCoordinator (src/proxy/src/types.ts) over                *)
(* FileSessionStore (src/proxy/src/storage/FileSessionStore.ts).  The writes  *)
(* of the session file are taken to succeed.                                  *)

\* config.payment with the environment's pay-to address.
proxyPayment ==
    [payTo |-> "0xAAA", asset |-> "usdc", network |-> "base-sepolia",
     resource |-> "https://api.samsar.one/v1/video/create",
     amountMinorUnits |-> 10000]

JobPayloads == {"job"}

buildRequirement(sessionId, payload) ==
    [scheme |-> "exact",
     network |-> proxyPayment.network,
     maxAmountRequired |-> proxyPayment.amountMinorUnits,
     resource |-> proxyPayment.resource,
     payTo |-> proxyPayment.payTo,
     asset |-> proxyPayment.asset]

NoError == [stage |-> NoValue, message |-> NoValue]

NewPaywalledSession(sessionId, payload) ==
    LET requirement == buildRequirement(sessionId, payload)
    IN  [id |-> sessionId,
         payload |-> payload,
         status |-> "payment_pending",
         createdAt |-> 1,
         updatedAt |-> 1,
         quote |-> [amountMinorUnits |-> requirement.maxAmountRequired,
                    asset |-> requirement.asset,
                    network |-> requirement.network],
         requirement |-> requirement,
         events |-> << [status |-> "payment_pending",
                        message |-> "Session created. Awaiting payment."] >>,
         paymentPayload |-> NoValue,
         verificationReceipt |-> NoValue,
         settlementReceipt |-> NoValue,
         samsarRequestId |-> NoValue,
         error |-> NoError]

buildEvent(status, message) == [status |-> status, message |-> message]

\* nowIso(), on a clock that ticks with every event written to the record.
nowIso(record) == Len(record.events) + 1

\* FileSessionStore.insert
storeInsert(store, record) ==
    IF record.id \in DOMAIN store
    THEN [store EXCEPT ![record.id] = record]
    ELSE store @@ (record.id :> record)

\* FileSessionStore.update, for an id the cache holds: the cache afterwards.
storeUpdate(store, id, updated) == [store EXCEPT ![id] = updated]

\* The statuses on which recordWalletEvent returns the session as it is.
recordWalletEventReturnsEarly(session) == session.status \in {"forwarded", "forwarding"}

\* The first key on which assertRequirementMatches finds a difference, or
\* NoValue.
assertRequirementMatches(expected, actual) ==
    LET keys == <<"scheme", "network", "maxAmountRequired", "payTo", "asset", "resource">>
        differing == {i \in 1..Len(keys) : expected[keys[i]] # actual[keys[i]]}
    IN  IF differing = {} THEN NoValue
        ELSE keys[CHOOSE i \in differing : \A j \in differing : i <= j]

\* The updaters recordWalletEvent, forwardToSamsar, handleForwardingSuccess and
\* handleForwardingFailure hand to store.update.
verifiedUpdater(record, paymentPayload, verificationRecord, settlementReceipt) ==
    [record EXCEPT
        !.status = "payment_verified",
        !.updatedAt = nowIso(record),
        !.paymentPayload = paymentPayload,
        !.verificationReceipt = verificationRecord,
        !.settlementReceipt = settlementReceipt,
        !.events = Append(@, buildEvent("payment_verified", "Payment verified via facilitator."))]

forwardingUpdater(record) ==
    [record EXCEPT
        !.status = "forwarding",
        !.updatedAt = nowIso(record),
        !.events = Append(@, buildEvent("forwarding",
                                        "Payment confirmed. Forwarding to SamsarOne."))]

forwardedUpdater(record, requestId) ==
    [record EXCEPT
        !.status = "forwarded",
        !.updatedAt = nowIso(record),
        !.samsarRequestId = requestId,
        !.events = Append(@, buildEvent("forwarded", "Payload forwarded to SamsarOne."))]

failedUpdater(record, message) ==
    [record EXCEPT
        !.status = "failed",
        !.updatedAt = nowIso(record),
        !.error = [stage |-> "forwarding", message |-> message],
        !.events = Append(@, buildEvent("failed", "Forwarding to SamsarOne failed."))]

\* recordWalletEvent's local verifiedSession, as far as it is still read: when
\* the session is forwarded, only its id is.
Kept(verifiedSession) ==
    IF behavior.autoSubmitOnPayment THEN [id |-> verifiedSession.id] ELSE verifiedSession

\* Whether recordWalletEvent calls the settler.
settles(event) == behavior.autoSettlePayments /\ ~event.skipSettlement

\* The wallet events of a session that passed the checks of recordWalletEvent
\* and have not thrown: those in flight and those that stored payment_verified.
Accepted(sid) ==
    Cardinality({i \in DOMAIN cache[sid].events :
                    cache[sid].events[i].status = "payment_verified"})
    + InFlight(walletEvents, sid, {"verify", "settle"})

\* A wallet event is taken up while fewer than MaxWalletEvents are accepted.
FitsEvents(sid) == Accepted(sid) < MaxWalletEvents

\* createPaywalledSession
CreatePaywalledSession(sid, payload) ==
    /\ variant = "PaymentCoordinator"
    /\ sid \notin DOMAIN cache
    /\ cache' = storeInsert(cache, NewPaywalledSession(sid, payload))
    /\ lastEvent' = Returned("createPaywalledSession", "return", sid,
                             NewPaywalledSession(sid, payload), NoRun)
    /\ UNCHANGED <<variant, behavior, walletEvents, issued, serviceVars, listenerVars, storeVars>>

\* recordWalletEvent up to its call of the verifier.
RecordWalletEvent(event) ==
    /\ variant = "PaymentCoordinator"
    /\ LET sid == event.sessionId
       IN  IF sid \notin DOMAIN cache
           THEN /\ lastEvent' = Threw("recordWalletEvent", "start", sid, "404 Session not found",
                                      NoRun)
                /\ UNCHANGED <<walletEvents>>
           ELSE IF recordWalletEventReturnsEarly(cache[sid])
           THEN /\ lastEvent' = Returned("recordWalletEvent", "start", sid, cache[sid],
                                         NoRun)
                /\ UNCHANGED <<walletEvents>>
           ELSE LET requirement == Field(event, "paymentRequirements", cache[sid].requirement)
                IN  IF assertRequirementMatches(cache[sid].requirement, requirement) # NoValue
                    THEN /\ lastEvent' = Threw("recordWalletEvent", "start", sid,
                                               "400 Payment requirement mismatch",
                                               NoRun)
                         /\ UNCHANGED <<walletEvents>>
                    ELSE /\ FitsEvents(sid)
                         /\ walletEvents' = Put(walletEvents,
                                [sid |-> sid, pc |-> "verify",
                                 paymentPayload |-> event.paymentPayload,
                                 settles |-> settles(event),
                                 run |-> Started(cache[sid].status = "failed")])
                         /\ lastEvent' = Awaiting("recordWalletEvent", "start", sid)
    /\ UNCHANGED <<variant, cache, behavior, issued, serviceVars, listenerVars, storeVars>>

\* The verifier answers: the settler is called, or the session is updated to
\* payment_verified.
WalletVerified(w, response) ==
    /\ variant = "PaymentCoordinator"
    /\ w \in BagToSet(walletEvents) /\ w.pc = "verify"
    /\ IF response = "throws"
       THEN /\ walletEvents' = Take(walletEvents, w)
            /\ lastEvent' = Threw("recordWalletEvent", "verify", w.sid, "verify request failed",
                                  [w.run EXCEPT !.verify = response])
            /\ UNCHANGED <<cache>>
       ELSE IF w.settles
       THEN /\ walletEvents' = Put(Take(walletEvents, w),
                    [w EXCEPT !.pc = "settle", !.run.verify = response])
            /\ lastEvent' = Awaiting("recordWalletEvent", "verify", w.sid)
            /\ UNCHANGED cache
       ELSE LET verifiedSession ==
                    verifiedUpdater(cache[w.sid], w.paymentPayload, response, NoValue)
            IN  /\ cache' = storeUpdate(cache, w.sid, verifiedSession)
                /\ walletEvents' = Put(Take(walletEvents, w),
                        [sid |-> w.sid, pc |-> "verified",
                         run |-> [w.run EXCEPT !.verify = response],
                         verifiedSession |-> Kept(verifiedSession)])
                /\ lastEvent' = Awaiting("recordWalletEvent", "verify", w.sid)
    /\ UNCHANGED <<variant, behavior, issued, serviceVars, listenerVars, storeVars>>

\* The settler answers: the session is updated to payment_verified.
WalletSettled(w, response) ==
    /\ variant = "PaymentCoordinator"
    /\ w \in BagToSet(walletEvents) /\ w.pc = "settle"
    /\ IF response = "throws"
       THEN /\ walletEvents' = Take(walletEvents, w)
            /\ lastEvent' = Threw("recordWalletEvent", "settle", w.sid, "settle request failed",
                                  [w.run EXCEPT !.settle = response])
            /\ UNCHANGED cache
       ELSE LET verifiedSession ==
                    verifiedUpdater(cache[w.sid], w.paymentPayload, w.run.verify,
                                    response)
            IN  /\ cache' = storeUpdate(cache, w.sid, verifiedSession)
                /\ walletEvents' = Put(Take(walletEvents, w),
                        [sid |-> w.sid, pc |-> "verified",
                         run |-> [w.run EXCEPT !.settle = response],
                         verifiedSession |-> Kept(verifiedSession)])
                /\ lastEvent' = Awaiting("recordWalletEvent", "settle", w.sid)
    /\ UNCHANGED <<variant, behavior, issued, serviceVars, listenerVars, storeVars>>

\* After the payment_verified update: the return of verifiedSession, or
\* forwardToSamsar up to its submitCreate call.
WalletForward(w) ==
    /\ variant = "PaymentCoordinator"
    /\ w \in BagToSet(walletEvents) /\ w.pc = "verified"
    /\ IF ~behavior.autoSubmitOnPayment
       THEN /\ walletEvents' = Take(walletEvents, w)
            /\ lastEvent' = Returned("recordWalletEvent", "verified", w.sid, w.verifiedSession,
                                     w.run)
            /\ UNCHANGED <<cache>>
       ELSE /\ cache' = storeUpdate(cache, w.sid, forwardingUpdater(cache[w.sid]))
            /\ walletEvents' = Put(Take(walletEvents, w),
                    [sid |-> w.sid, pc |-> "submit", run |-> w.run])
            /\ lastEvent' = Awaiting("recordWalletEvent", "verified", w.sid)
    /\ UNCHANGED <<variant, behavior, issued, serviceVars, listenerVars, storeVars>>

\* submitCreate answers: handleForwardingSuccess or handleForwardingFailure.
WalletSubmitted(w, response) ==
    /\ variant = "PaymentCoordinator"
    /\ w \in BagToSet(walletEvents) /\ w.pc = "submit"
    /\ LET updated ==
            IF response = "throws"
            THEN failedUpdater(cache[w.sid], "SamsarOne responded with an error")
            ELSE IF response = "no_request_id"
            THEN forwardedUpdater(cache[w.sid], NoValue)
            ELSE forwardedUpdater(cache[w.sid], RequestIdOf(issued + 1))
       IN  /\ cache' = storeUpdate(cache, w.sid, updated)
           /\ issued' = IF response = "request_id" THEN issued + 1 ELSE issued
           /\ lastEvent' = Returned("recordWalletEvent", "submit", w.sid, updated,
                                    [w.run EXCEPT !.submit = response])
    /\ walletEvents' = Take(walletEvents, w)
    /\ UNCHANGED <<variant, behavior, serviceVars, listenerVars, storeVars>>

\* The wallet events a caller may post for a session id: without a
\* requirement, with the stored one, or with one that differs from it.
WalletEventsOf(sid) ==
    LET base == [sessionId : {sid}, paymentPayload : Payloads, skipSettlement : BOOLEAN]
        stored == IF sid \in DOMAIN cache THEN cache[sid].requirement
                  ELSE buildRequirement(sid, "job")
    IN  base
        \cup { e @@ [paymentRequirements |-> stored] : e \in base }
        \cup { e @@ [paymentRequirements |-> r] :
                    e \in {x \in base : ~x.skipSettlement},
                    r \in RequirementVariants(stored) }

ProxyNext ==
    \/ \E sid \in SessionIds, payload \in JobPayloads : CreatePaywalledSession(sid, payload)
    \/ \E sid \in SessionIds : \E event \in WalletEventsOf(sid) : RecordWalletEvent(event)
    \/ \E w \in BagToSet(walletEvents), response \in VerifyResponses : WalletVerified(w, response)
    \/ \E w \in BagToSet(walletEvents), response \in SettleResponses : WalletSettled(w, response)
    \/ \E w \in BagToSet(walletEvents) : WalletForward(w)
    \/ \E w \in BagToSet(walletEvents), response \in CreateResponses : WalletSubmitted(w, response)

-----------------------------------------------------------------------------
(* PaymentListenerService (src/services/ServerConnect.ts): sessions that    *)
(* wait for an on-chain transfer, and one polling worker (a NetworkState)   *)
(* per network.  A NetworkState is an object: registerPayment and           *)
(* pollNetwork keep working on the object they fetched even after           *)
(* networkStates holds another one, so the objects live in `states` and     *)
(* networkStates holds their index.                                         *)

\* Blocks mined during a behaviour (block 0 is the genesis block).
MaxHeight == 2

\* Transfer logs on the whole chain.
MaxTransfers == 2

\* The ids randomUUID hands out to registerPayment, in that order.
ListenerIds == <<"p1", "p2">>

\* The keys of NETWORK_TO_CHAIN the model uses, and the networks a caller names.
NETWORK_TO_CHAIN == {"base"}
RequestedNetworks == {"base", "solana"}

\* viem's getAddress: the checksum form of an address, whatever its case.
getAddress ==
    [a \in {"0xusdc", "0xUSDC"} |-> "0xUSDC"] @@
    [a \in {"0xmerchant", "0xMerchant"} |-> "0xMerchant"] @@
    [a \in {"0xother", "0xOther"} |-> "0xOther"]

normalizeAddress(address) == getAddress[address]

safeNormalize(address) ==
    IF address \in DOMAIN getAddress THEN normalizeAddress(address) ELSE NoValue

\* The amount every requirement asks for, in minor units.
RequiredAmount == 2

\* The requirements registerPayment is called with.
ListenerRequirements ==
    [network : RequestedNetworks, asset : {"0xusdc"},
     payTo : {"0xmerchant"}, maxAmountRequired : {RequiredAmount}]

\* Transaction hashes, in the order they first appear on the chain.
TxHashes == <<"0xh1", "0xh2">>

\* A Transfer log as the RPC node returns it: to the merchant an amount below,
\* equal to or above the required one, to another address the required one.
TransferLogs ==
    { log \in [transactionHash : {TxHashes[i] : i \in DOMAIN TxHashes},
               address : {"0xusdc"},
               to : {"0xMerchant", "0xOther"},
               value : (RequiredAmount - 1) .. (RequiredAmount + 1)] :
        log.to = "0xOther" => log.value = RequiredAmount }

RECURSIVE Flatten(_)
Flatten(blocks) ==
    IF blocks = <<>> THEN <<>> ELSE Head(blocks) \o Flatten(Tail(blocks))

HashesOn(blocks) ==
    { Flatten(blocks)[i].transactionHash : i \in DOMAIN Flatten(blocks) }

\* The hash of a new log of the block being mined: that of a log the block
\* holds already (one transaction emits several logs), or the next unused one.
NextHashes(blocks, block) ==
    HashesOn(<<block>>) \union
    { TxHashes[i] :
        i \in { j \in DOMAIN TxHashes :
                  j = Cardinality(HashesOn(Append(blocks, block))) + 1 } }

\* client.getBlockNumber()
getBlockNumber(blocks) == Len(blocks)

RECURSIVE SelectLogs(_, _)
SelectLogs(logs, addresses) ==
    IF logs = <<>> THEN <<>>
    ELSE (IF normalizeAddress(Head(logs).address) \in addresses
          THEN <<Head(logs)>> ELSE <<>>) \o SelectLogs(Tail(logs), addresses)

\* client.getLogs({ address, event: transferEvent, fromBlock, toBlock })
getLogs(blocks, addresses, fromBlock, toBlock) ==
    SelectLogs(Flatten(SubSeq(blocks, fromBlock, toBlock)), addresses)

NewPaymentSession(sessionId, requirement) ==
    [id |-> sessionId, requirement |-> requirement, status |-> "pending",
     transactionHash |-> NoValue]

\* The NetworkState ensureNetworkState builds.
NewNetworkState(network, latestBlock) ==
    [network |-> network,
     lastBlock |-> IF latestBlock > 0 THEN latestBlock - 1 ELSE latestBlock,
     polling |-> FALSE,
     assets |-> {},
     sessionsByAsset |-> <<>>,
     timer |-> TRUE,
     processedTxHashes |-> {}]

\* registerPayment's additions to the state it got from ensureNetworkState.
watch(state, normalizedAsset, sessionId) ==
    [state EXCEPT
        !.assets = @ \union {normalizedAsset},
        !.sessionsByAsset =
            IF normalizedAsset \in DOMAIN @
            THEN [@ EXCEPT ![normalizedAsset] =
                      IF \E i \in DOMAIN @ : @[i] = sessionId
                      THEN @ ELSE Append(@, sessionId)]
            ELSE @ @@ (normalizedAsset :> <<sessionId>>)]

Without(f, k) == [x \in DOMAIN f \ {k} |-> f[x]]

RECURSIVE Except(_, _)
Except(ids, sessionId) ==
    IF ids = <<>> THEN <<>>
    ELSE (IF Head(ids) = sessionId THEN <<>> ELSE <<Head(ids)>>)
         \o Except(Tail(ids), sessionId)

\* qualifies, with the amount test turning the exact amount away.
qualifiesAboveOnly(session, toAddress, value) ==
    /\ session.status = "pending"
    /\ safeNormalize(session.requirement.payTo) # NoValue
    /\ safeNormalize(session.requirement.payTo) = toAddress
    /\ ~(value <= session.requirement.maxAmountRequired)

\* qualifies, with the amount test letting one unit less through.
qualifiesOneShort(session, toAddress, value) ==
    /\ session.status = "pending"
    /\ safeNormalize(session.requirement.payTo) # NoValue
    /\ safeNormalize(session.requirement.payTo) = toAddress
    /\ ~(value < session.requirement.maxAmountRequired - 1)

\* qualifies, without the comparison of the recipient with payTo.
qualifiesAnyRecipient(session, toAddress, value) ==
    /\ session.status = "pending"
    /\ safeNormalize(session.requirement.payTo) # NoValue
    /\ ~(value < session.requirement.maxAmountRequired)

\* The tests of pollNetwork's inner loop that let a transfer of `value` to
\* `toAddress` pay for a session.
qualifies(session, toAddress, value) ==
    /\ session.status = "pending"
    /\ safeNormalize(session.requirement.payTo) # NoValue
    /\ safeNormalize(session.requirement.payTo) = toAddress
    /\ ~(value < session.requirement.maxAmountRequired)

\* pollNetwork's loops over the logs and, per log, over a copy of the session
\* ids of the log's asset, run from the place (logs, started, queue) up to the
\* next call of handlePaymentDetected or to the end.  `logs` starts with the
\* log in hand, `started` says that its hash is already recorded and `queue`
\* holds the session ids still to try for it.  The result's `session` is the
\* id to hand to handlePaymentDetected, or empty at the end.
RECURSIVE forLogs(_, _, _, _, _)
forLogs(state, sessionsById, logs, started, queue) ==
    IF logs = <<>>
    THEN [state |-> state, logs |-> <<>>, queue |-> <<>>, session |-> <<>>]
    ELSE LET log == Head(logs)
             assetAddress == normalizeAddress(log.address)
         IN  IF ~started
             THEN IF log.transactionHash \in state.processedTxHashes
                  THEN forLogs(state, sessionsById, Tail(logs), FALSE, <<>>)
                  ELSE forLogs([state EXCEPT !.processedTxHashes =
                                                 @ \union {log.transactionHash}],
                               sessionsById, logs, TRUE,
                               IF assetAddress \in DOMAIN state.sessionsByAsset
                               THEN state.sessionsByAsset[assetAddress]
                               ELSE <<>>)
             ELSE IF queue = <<>>
                  THEN forLogs(state, sessionsById, Tail(logs), FALSE, <<>>)
                  ELSE IF /\ Head(queue) \in DOMAIN sessionsById
                          /\ qualifies(sessionsById[Head(queue)],
                                       normalizeAddress(log.to), log.value)
                       THEN [state |-> state, logs |-> logs, queue |-> Tail(queue),
                             session |-> <<Head(queue)>>]
                       ELSE forLogs(state, sessionsById, logs, TRUE, Tail(queue))

\* cleanupSession, leaving the session in place and pending again.
cleanupSessionReopens(sessionsById, byNetwork, objects, sessionId, network, assetAddress) ==
    [sessions |-> [sessionsById EXCEPT ![sessionId].status = "pending"],
     networkStates |-> byNetwork, states |-> objects]

\* cleanupSession: what it leaves of sessions, networkStates and the
\* NetworkState objects.
cleanupSession(sessionsById, byNetwork, objects, sessionId, network, assetAddress) ==
    IF network \notin DOMAIN byNetwork
    THEN [sessions |-> Without(sessionsById, sessionId),
          networkStates |-> byNetwork, states |-> objects]
    ELSE LET w == byNetwork[network]
             state == objects[w]
             known == assetAddress \in DOMAIN state.sessionsByAsset
             sessionsForAsset ==
                 IF known THEN Except(state.sessionsByAsset[assetAddress], sessionId)
                 ELSE <<>>
             pruned ==
                 IF ~known THEN state
                 ELSE IF sessionsForAsset = <<>>
                      THEN [state EXCEPT
                               !.sessionsByAsset = Without(@, assetAddress),
                               !.assets = @ \ {assetAddress}]
                      ELSE [state EXCEPT
                               !.sessionsByAsset[assetAddress] = sessionsForAsset]
         IN  IF pruned.assets = {} /\ pruned.timer
             THEN [sessions |-> Without(sessionsById, sessionId),
                   networkStates |-> Without(byNetwork, network),
                   states |-> [objects EXCEPT ![w] = [pruned EXCEPT !.timer = FALSE]]]
             ELSE [sessions |-> Without(sessionsById, sessionId),
                   networkStates |-> byNetwork,
                   states |-> [objects EXCEPT ![w] = pruned]]

\* A NetworkState that neither networkStates nor a scan in flight refers to is
\* out of reach: nothing of it but its timer acts any more.
Swept(objects, byNetwork, running) ==
    [w \in DOMAIN objects |->
        IF \/ \E network \in DOMAIN byNetwork : byNetwork[network] = w
           \/ \E scan \in running : scan.state = w
        THEN objects[w]
        ELSE [NewNetworkState(objects[w].network, 0) EXCEPT !.timer = objects[w].timer]]

\* The ids randomUUID has handed out.
UsedIds ==
    DOMAIN paymentSessions \union
    { detections[i].sessionId : i \in DOMAIN detections }

\* pollNetwork's guards: the network has a worker, it is not scanning, and it
\* watches an asset.
pollNetworkStarts(network) ==
    /\ network \in DOMAIN networkStates
    /\ ~states[networkStates[network]].polling
    /\ states[networkStates[network]].assets # {}

NewScan(network, caller) ==
    [state |-> networkStates[network], network |-> network, caller |-> caller,
     pc |-> "getBlockNumber", addresses |-> {}, fromBlock |-> 0, toBlock |-> 0,
     logs |-> <<>>, queue |-> <<>>, session |-> NoValue,
     transactionHash |-> NoValue, assetAddress |-> NoValue]

\* pollNetwork returns (its finally block has run): the caller that awaited
\* it, if it is registerPayment, returns its session id.
ScanEnds(scan) ==
    /\ scans' = scans \ {scan}
    /\ registrations' = { r \in registrations : r.sessionId # scan.caller }

\* The log loop goes on from the scan's place, over the sessions, workers and
\* objects given, up to the next handlePaymentDetected call (which marks the
\* session and waits for the provider) or to the end of pollNetwork.
ScanGoesOn(scan, logs, sessionsById, byNetwork, objects, started) ==
    LET place == forLogs(objects[scan.state], sessionsById, logs, started, scan.queue)
    IN  /\ networkStates' = byNetwork
        /\ IF place.session = <<>>
           THEN /\ states' = Swept([objects EXCEPT ![scan.state] =
                                        [place.state EXCEPT !.polling = FALSE]],
                                  byNetwork, scans \ {scan})
                /\ paymentSessions' = sessionsById
                /\ detections' = detections
                /\ ScanEnds(scan)
           ELSE LET sessionId == place.session[1]
                    log == Head(place.logs)
                IN  /\ states' = Swept([objects EXCEPT ![scan.state] = place.state],
                                      byNetwork, scans)
                    /\ paymentSessions' =
                           [sessionsById EXCEPT ![sessionId] =
                               [@ EXCEPT !.status = "processing",
                                         !.transactionHash = log.transactionHash]]
                    /\ detections' = Append(detections,
                           [sessionId |-> sessionId,
                            transactionHash |-> log.transactionHash])
                    /\ scans' = (scans \ {scan}) \union
                           {[scan EXCEPT !.pc = "createVideo",
                                         !.addresses = {},
                                         !.fromBlock = 0,
                                         !.toBlock = 0,
                                         !.logs = place.logs,
                                         !.queue = place.queue,
                                         !.session = sessionId,
                                         !.transactionHash = log.transactionHash,
                                         !.assetAddress = normalizeAddress(log.address)]}
                    /\ UNCHANGED registrations

servicesIdle == UNCHANGED <<variant, serviceVars, proxyVars, issued, lastEvent, storeVars>>

\* registerPayment up to its first wait: the worker's block height when the
\* network has no worker, the notification otherwise.
RegisterPayment(requirement) ==
    /\ variant = "PaymentListenerService"
    /\ requirement.network \in NETWORK_TO_CHAIN
    /\ Cardinality(UsedIds) < Len(ListenerIds)
    /\ LET sessionId == ListenerIds[Cardinality(UsedIds) + 1]
           network == requirement.network
           normalizedAsset == normalizeAddress(requirement.asset)
       IN  /\ paymentSessions' =
                  paymentSessions @@ (sessionId :> NewPaymentSession(sessionId, requirement))
           /\ IF network \in DOMAIN networkStates
              THEN /\ states' = [states EXCEPT ![networkStates[network]] =
                                     watch(@, normalizedAsset, sessionId)]
                   /\ registrations' = registrations \union
                          {[sessionId |-> sessionId, requirement |-> requirement,
                            pc |-> "notifyAgentverse"]}
              ELSE /\ states' = states
                   /\ registrations' = registrations \union
                          {[sessionId |-> sessionId, requirement |-> requirement,
                            pc |-> "getBlockNumber"]}
    /\ UNCHANGED <<networkStates, scans, chain, detections>>
    /\ servicesIdle

\* ensureNetworkState after client.getBlockNumber() resolved: the new
\* NetworkState with its timer goes into networkStates, whatever is there, and
\* registerPayment adds its asset and session to it.
EnsureNetworkState(registration) ==
    /\ registration \in registrations
    /\ registration.pc = "getBlockNumber"
    /\ LET network == registration.requirement.network
           state == NewNetworkState(network, getBlockNumber(chain))
       IN  /\ networkStates' =
                  (network :> Len(states) + 1) @@ networkStates
           /\ states' = Swept(Append(states,
                  watch(state, normalizeAddress(registration.requirement.asset),
                        registration.sessionId)), networkStates', scans)
    /\ registrations' = (registrations \ {registration}) \union
           {[registration EXCEPT !.pc = "notifyAgentverse"]}
    /\ UNCHANGED <<paymentSessions, scans, chain, detections>>
    /\ servicesIdle

\* client.getBlockNumber() rejects in ensureNetworkState: registerPayment
\* throws, and its session stays in sessions.
EnsureNetworkStateThrows(registration) ==
    /\ registration \in registrations
    /\ registration.pc = "getBlockNumber"
    /\ registrations' = registrations \ {registration}
    /\ UNCHANGED <<paymentSessions, networkStates, states, scans, chain,
                   detections>>
    /\ servicesIdle

\* registerPayment after the notification: it calls pollNetwork and returns
\* when that returns.
RegistrationPolls(registration) ==
    /\ registration \in registrations
    /\ registration.pc = "notifyAgentverse"
    /\ LET network == registration.requirement.network
       IN  IF pollNetworkStarts(network)
           THEN /\ states' = [states EXCEPT ![networkStates[network]].polling = TRUE]
                /\ scans' = scans \union {NewScan(network, registration.sessionId)}
                /\ registrations' = (registrations \ {registration}) \union
                       {[registration EXCEPT !.pc = "pollNetwork"]}
           ELSE /\ registrations' = registrations \ {registration}
                /\ UNCHANGED <<states, scans>>
    /\ UNCHANGED <<paymentSessions, networkStates, chain, detections>>
    /\ servicesIdle

\* registerPayment, were notifyAgentverse to reject: it throws before
\* pollNetwork is called.
RegistrationThrows(registration) ==
    /\ registration \in registrations
    /\ registration.pc = "notifyAgentverse"
    /\ registrations' = registrations \ {registration}
    /\ UNCHANGED <<paymentSessions, networkStates, states, scans, chain, detections>>
    /\ servicesIdle

\* registerPayment after it awaited its notification.
RegistrationPoll(registration) ==
    \E sink \in SinkOutcomes :
        IF notifyAgentverse(sink) = "resolved"
        THEN RegistrationPolls(registration)
        ELSE RegistrationThrows(registration)

\* The interval timer of NetworkState object w fires: pollNetwork(network),
\* on the worker networkStates holds at that moment.
TimerTick(w) ==
    /\ w \in DOMAIN states
    /\ states[w].timer
    /\ LET network == states[w].network
       IN  IF pollNetworkStarts(network)
           THEN /\ states' = [states EXCEPT ![networkStates[network]].polling = TRUE]
                /\ scans' = scans \union {NewScan(network, "timer")}
           ELSE UNCHANGED <<states, scans>>
    /\ UNCHANGED <<paymentSessions, networkStates, registrations, chain,
                   detections>>
    /\ servicesIdle

\* pollNetwork after client.getBlockNumber() resolved.
ScanBlockNumber(scan) ==
    /\ scan \in scans
    /\ scan.pc = "getBlockNumber"
    /\ LET latestBlock == getBlockNumber(chain)
           state == states[scan.state]
       IN  IF latestBlock <= state.lastBlock
           THEN /\ states' = Swept([states EXCEPT ![scan.state].polling = FALSE],
                                  networkStates, scans \ {scan})
                /\ ScanEnds(scan)
           ELSE /\ states' = [states EXCEPT ![scan.state].lastBlock = latestBlock]
                /\ scans' = (scans \ {scan}) \union
                       {[scan EXCEPT !.pc = "getLogs",
                                     !.addresses = state.assets,
                                     !.fromBlock = state.lastBlock + 1,
                                     !.toBlock = latestBlock]}
                /\ UNCHANGED registrations
    /\ UNCHANGED <<paymentSessions, networkStates, chain, detections>>
    /\ servicesIdle

\* client.getBlockNumber() or client.getLogs() rejects in pollNetwork: the
\* finally block runs and the error goes to the caller's catch.
ScanThrows(scan) ==
    /\ scan \in scans
    /\ scan.pc \in {"getBlockNumber", "getLogs"}
    /\ states' = Swept([states EXCEPT ![scan.state].polling = FALSE],
                       networkStates, scans \ {scan})
    /\ ScanEnds(scan)
    /\ UNCHANGED <<paymentSessions, networkStates, chain, detections>>
    /\ servicesIdle

\* pollNetwork after client.getLogs() resolved.
ScanLogs(scan) ==
    /\ scan \in scans
    /\ scan.pc = "getLogs"
    /\ ScanGoesOn(scan, getLogs(chain, scan.addresses, scan.fromBlock, scan.toBlock),
                  paymentSessions, networkStates, states, FALSE)
    /\ UNCHANGED chain
    /\ servicesIdle

\* handlePaymentDetected after apiClient.createVideo() resolved or rejected:
\* the session's final status, then the notification.
CreateVideoEnds(scan, response) ==
    /\ scan \in scans
    /\ scan.pc = "createVideo"
    /\ paymentSessions' = [paymentSessions EXCEPT ![scan.session].status =
           IF response = "request_id" THEN "completed" ELSE "failed"]
    /\ scans' = (scans \ {scan}) \union {[scan EXCEPT !.pc = "notifyAgentverse"]}
    /\ UNCHANGED <<networkStates, states, registrations, chain, detections>>
    /\ servicesIdle

\* handlePaymentDetected after its last notification: cleanupSession, and
\* pollNetwork's loops go on.
CleanupGoesOn(scan) ==
    /\ scan \in scans
    /\ scan.pc = "notifyAgentverse"
    /\ LET left == cleanupSession(paymentSessions, networkStates, states,
                                  scan.session, scan.network, scan.assetAddress)
       IN  ScanGoesOn(scan, scan.logs, left.sessions, left.networkStates,
                      left.states, TRUE)
    /\ UNCHANGED chain
    /\ servicesIdle

\* handlePaymentDetected, were its last notification to reject: cleanupSession
\* is not run, pollNetwork's loops end and its finally block runs.
CleanupThrows(scan) ==
    /\ scan \in scans
    /\ scan.pc = "notifyAgentverse"
    /\ states' = Swept([states EXCEPT ![scan.state].polling = FALSE],
                       networkStates, scans \ {scan})
    /\ ScanEnds(scan)
    /\ UNCHANGED <<paymentSessions, networkStates, chain, detections>>
    /\ servicesIdle

\* handlePaymentDetected after it awaited its last notification.
CleanupSession(scan) ==
    \E sink \in SinkOutcomes :
        IF notifyAgentverse(sink) = "resolved"
        THEN CleanupGoesOn(scan)
        ELSE CleanupThrows(scan)

\* Most logs in one block.
MaxBlockLogs == 2

OneLog(blocks, block) ==
    { log \in TransferLogs : log.transactionHash \in NextHashes(blocks, block) }

\* The blocks of at most n more logs that may follow `blocks`, each starting
\* with the logs of `block`.
RECURSIVE BlocksOf(_, _, _)
BlocksOf(blocks, block, n) ==
    IF n = 0 THEN {block}
    ELSE {block} \union
         UNION { BlocksOf(blocks, Append(block, log), n - 1) :
                 log \in OneLog(blocks, block) }

\* The blocks that may be mined next.
Minable ==
    IF Len(chain) < MaxHeight
    THEN BlocksOf(chain, <<>>, Min(MaxBlockLogs, MaxTransfers - Len(Flatten(chain))))
    ELSE {}

\* The chain grows by one block.
Mine(block) ==
    /\ variant = "PaymentListenerService"
    /\ block \in Minable
    /\ chain' = Append(chain, block)
    /\ UNCHANGED <<paymentSessions, networkStates, states, registrations, scans,
                   detections>>
    /\ servicesIdle

ListenerNext ==
    \/ \E requirement \in ListenerRequirements : RegisterPayment(requirement)
    \/ \E registration \in registrations : EnsureNetworkState(registration)
    \/ \E registration \in registrations : EnsureNetworkStateThrows(registration)
    \/ \E registration \in registrations : RegistrationPoll(registration)
    \/ \E w \in DOMAIN states : TimerTick(w)
    \/ \E scan \in scans : ScanBlockNumber(scan)
    \/ \E scan \in scans : ScanThrows(scan)
    \/ \E scan \in scans : ScanLogs(scan)
    \/ \E scan \in scans, response \in CreateResponses : CreateVideoEnds(scan, response)
    \/ \E scan \in scans : CleanupSession(scan)
    \/ \E block \in Minable : Mine(block)

ListenerStart ==
    /\ paymentSessions = <<>>
    /\ networkStates = <<>>
    /\ states = <<>>
    /\ registrations = {}
    /\ scans = {}
    /\ chain = <<>>
    /\ detections = <<>>

-----------------------------------------------------------------------------
(* FileSessionStore (src/proxy/src/storage/FileSessionStore.ts)

   The store on its own: the cache, the file behind it and the chain of
   persists.  A call is a record with its position; the steps of a call are
   the stretches between its awaits.  bootstrap awaits store.init() before the
   server listens, so insert and update are called on a store whose
   initialized flag is set and ensureReady returns without reading the file. *)

MaxStoreCalls == 2

StoreIds == {"s1", "s2"}

Updaters == {"f", "g"}

\* The session file: missing (readFile fails with ENOENT), or the records of
\* the JSON array written last.
ENOENT == [exists |-> FALSE, records |-> <<>>]

Written(records) == [exists |-> TRUE, records |-> records]

\* A record as the store sees it: its id and the updaters applied to it.
StoreRecord(id) == [id |-> id, applied |-> <<>>]

\* An updater handed to update: it returns a changed copy of its argument.
updater(name, record) == [record EXCEPT !.applied = Append(@, name)]

\* JSON.parse(JSON.stringify(record)): the fields with a defined value.
cloneRecord(record) ==
    [key \in {k \in DOMAIN record : record[k] # NoValue} |-> record[key]]

StoreCall(op, id, name) ==
    [op |-> op, id |-> id, updater |-> name, pc |-> "ensureReady", payload |-> <<>>]

StoreCalls ==
    {StoreCall("insert", id, NoValue) : id \in StoreIds}
        \cup {StoreCall("update", id, name) : id \in StoreIds, name \in Updaters}

\* update, were it to work on the record the file holds instead of the cache's.
updatedFromFile(call) ==
    IF call.id \in DOMAIN file.records
    THEN updater(call.updater, cloneRecord(file.records[call.id]))
    ELSE updater(call.updater, cloneRecord(cache[call.id]))

\* update's record after cloneRecord and the updater, read from the cache when
\* the call goes on after ensureReady.
updatedBy(call) == updater(call.updater, cloneRecord(cache[call.id]))

\* enqueuePersist: writeQueue.then(() => persist()).  On a settled queue the
\* persist starts at once; behind a pending link it waits; behind a rejected
\* one it is never run and the call throws.
enqueuePersist(queue, all, run) ==
    IF queue.rejected
    THEN [writeQueue |-> queue, calls |-> [all EXCEPT ![run].pc = "thrown"]]
    ELSE [writeQueue |-> [queue EXCEPT !.links = Append(@, run)],
          calls |-> [all EXCEPT ![run].pc =
                        IF queue.links = <<>> THEN "mkdir" ELSE "writeQueue"]]

storeIdle ==
    UNCHANGED <<variant, behavior, walletEvents, issued, lastEvent, serviceVars,
                listenerVars>>

\* init, first stretch: fs.readFile answers with the file or with ENOENT.
InitReadFile ==
    /\ calls[1].pc = "readFile"
    /\ IF file = ENOENT
       THEN /\ calls' = [calls EXCEPT ![1].pc = "mkdir"]
            /\ UNCHANGED <<cache, initialized>>
       ELSE /\ cache' = file.records
            /\ initialized' = TRUE
            /\ calls' = [calls EXCEPT ![1].pc = "returned"]
    /\ UNCHANGED <<file, writeQueue>>
    /\ storeIdle

\* init, first stretch: fs.readFile or JSON.parse throws another error.
InitReadFileThrows ==
    /\ calls[1].pc = "readFile"
    /\ calls' = [calls EXCEPT ![1].pc = "thrown"]
    /\ UNCHANGED <<cache, initialized, file, writeQueue>>
    /\ storeIdle

\* A request handler calls insert or update: the call up to its first await.
StartCall(call) ==
    /\ calls[1].pc = "returned"
    /\ initialized
    /\ Len(calls) - 1 < MaxStoreCalls
    /\ calls' = Append(calls, call)
    /\ UNCHANGED <<cache, initialized, file, writeQueue>>
    /\ storeIdle

\* insert after ensureReady: cache.set and enqueuePersist.
Insert(run) ==
    /\ calls[run].op = "insert"
    /\ calls[run].pc = "ensureReady"
    /\ cache' = storeInsert(cache, StoreRecord(calls[run].id))
    /\ LET next == enqueuePersist(writeQueue, calls, run)
       IN  /\ writeQueue' = next.writeQueue
           /\ calls' = next.calls
    /\ UNCHANGED <<initialized, file>>
    /\ storeIdle

\* update after ensureReady: cache.get, the updater, cache.set and
\* enqueuePersist, or the throw for an id the cache does not hold.
Update(run) ==
    /\ calls[run].op = "update"
    /\ calls[run].pc = "ensureReady"
    /\ IF calls[run].id \notin DOMAIN cache
       THEN /\ calls' = [calls EXCEPT ![run].pc = "thrown"]
            /\ UNCHANGED <<cache, writeQueue>>
       ELSE /\ cache' = storeUpdate(cache, calls[run].id, updatedBy(calls[run]))
            /\ LET next == enqueuePersist(writeQueue, calls, run)
               IN  /\ writeQueue' = next.writeQueue
                   /\ calls' = next.calls
    /\ UNCHANGED <<initialized, file>>
    /\ storeIdle

\* persist after fs.mkdir: the payload is the cache as it is now.
Mkdir(run) ==
    /\ calls[run].pc = "mkdir"
    /\ calls' = [calls EXCEPT ![run].pc = "writeFile", ![run].payload = cache]
    /\ UNCHANGED <<cache, initialized, file, writeQueue>>
    /\ storeIdle

\* persist after fs.writeFile: the call returns and the next link's persist
\* starts.
WriteFile(run) ==
    /\ calls[run].pc = "writeFile"
    /\ file' = Written(calls[run].payload)
    /\ IF calls[run].op = "init"
       THEN /\ initialized' = TRUE
            /\ calls' = [calls EXCEPT ![run].pc = "returned", ![run].payload = <<>>]
            /\ UNCHANGED writeQueue
       ELSE LET rest == Tail(writeQueue.links)
            IN  /\ writeQueue' = [writeQueue EXCEPT !.links = rest]
                /\ calls' = [r \in DOMAIN calls |->
                                IF r = run
                                THEN [calls[r] EXCEPT !.pc = "returned", !.payload = <<>>]
                                ELSE IF rest # <<>> /\ r = Head(rest)
                                THEN [calls[r] EXCEPT !.pc = "mkdir"]
                                ELSE calls[r]]
                /\ UNCHANGED initialized
    /\ UNCHANGED cache
    /\ storeIdle

\* fs.mkdir or fs.writeFile throws: the link rejects, and so does every link
\* chained behind it, whose persist is not run.
PersistThrows(run) ==
    /\ calls[run].pc \in {"mkdir", "writeFile"}
    /\ IF calls[run].op = "init"
       THEN /\ calls' = [calls EXCEPT ![run].pc = "thrown", ![run].payload = <<>>]
            /\ UNCHANGED writeQueue
       ELSE /\ writeQueue' = [links |-> <<>>, rejected |-> TRUE]
            /\ calls' = [r \in DOMAIN calls |->
                            IF \E i \in DOMAIN writeQueue.links : writeQueue.links[i] = r
                            THEN [calls[r] EXCEPT !.pc = "thrown", !.payload = <<>>]
                            ELSE calls[r]]
    /\ UNCHANGED <<cache, initialized, file>>
    /\ storeIdle

StoreNext ==
    \/ InitReadFile
    \/ InitReadFileThrows
    \/ \E call \in StoreCalls : StartCall(call)
    \/ \E run \in DOMAIN calls : Insert(run)
    \/ \E run \in DOMAIN calls : Update(run)
    \/ \E run \in DOMAIN calls : Mkdir(run)
    \/ \E run \in DOMAIN calls : WriteFile(run)
    \/ \E run \in DOMAIN calls : PersistThrows(run)

\* The store before bootstrap constructs it.
StoreStart ==
    /\ initialized = FALSE
    /\ file = ENOENT
    /\ writeQueue = [links |-> <<>>, rejected |-> FALSE]
    /\ calls = <<>>

-----------------------------------------------------------------------------
(* The create routes (src/services/ServerConnect.ts createPricingRoute,
   src/proxy/src/index.ts POST /create)

   A request body is a JSON value as express.json() hands it over: a value
   carries its type, an object its fields.  The bodies carry no tone and no
   aspect_ratio. *)

Obj(fields) == [type |-> "object", fields |-> fields]
Arr == [type |-> "array"]

\* value[key], and key in value
Get(value, key) ==
    IF value.type = "object" /\ key \in DOMAIN value.fields THEN value.fields[key]
    ELSE Undefined

Has(value, key) == value.type = "object" /\ key \in DOMAIN value.fields

\* String.prototype.trim on the texts the bodies carry
trim(text) ==
    CASE text = " a " -> "a"
      [] text = "  " -> ""
      [] OTHER -> text

T2V_IMAGE_MODELS == {"GPTIMAGE1", "IMAGEN4", "SEEDREAM", "NANOBANANA", "HUNYUAN"}

T2V_VIDEO_MODELS ==
    {"RUNWAYML", "SEEDANCEI2V", "HAILUO", "HAILUOPRO", "WANI2V", "WANI2V5B",
     "VEO3.1I2V", "VEO3.1I2VFAST", "KLINGIMGTOVIDTURBO", "SORA2", "SORA2PRO"}

\* typeof value === "object" && value !== null
isStringRecord(value) == value.type \in {"object", "array"}

\* Boolean(value) && typeof value === "object" && !Array.isArray(value)
isPlainObject(value) == value.type = "object"

\* assertAllowedValue: whether it throws
assertAllowedValue(value, allowed) ==
    value.type # "undefined" /\ (value.type # "string" \/ value.text \notin allowed)

Rejected(message) == [ok |-> FALSE, error |-> message]

\* parseCreateVideoInput: the sanitized input, or the error thrown
parseCreateVideoInput(body) ==
    IF ~isStringRecord(body) THEN Rejected("Request body must be a JSON object.")
    ELSE IF ~isStringRecord(Get(body, "input"))
    THEN Rejected("Missing Samsar.One-compatible payload under 'input'.")
    ELSE LET input == Get(body, "input")
             prompt == Get(input, "prompt")
         IN  IF prompt.type # "string" \/ trim(prompt.text) = ""
             THEN Rejected("Input.prompt is required and must be a non-empty string.")
             ELSE IF Has(input, "duration") /\ Get(input, "duration").type # "number"
             THEN Rejected("Input.duration must be a number when provided.")
             ELSE IF Has(input, "image_model")
                     /\ assertAllowedValue(Get(input, "image_model"), T2V_IMAGE_MODELS)
             THEN Rejected("Invalid input.image_model.")
             ELSE IF Has(input, "video_model")
                     /\ assertAllowedValue(Get(input, "video_model"), T2V_VIDEO_MODELS)
             THEN Rejected("Invalid input.video_model.")
             ELSE [ok |-> TRUE,
                   input |->
                       [key \in {"prompt"} \cup
                                ({"duration", "image_model", "video_model"}
                                     \cap DOMAIN input.fields) |->
                           IF key = "prompt" THEN trim(prompt.text)
                           ELSE IF key = "duration" THEN input.fields[key]
                           ELSE input.fields[key].text]]

\* toCreatePayload
toCreatePayload(body) == IF isPlainObject(body) THEN body ELSE Obj([x \in {} |-> x])

\* message.toLowerCase().includes(searchString), for the messages of the
\* errors confirmPayment throws.
includes(message, searchString) ==
    CASE searchString = "not found" ->
             message \in {"Session not found.", "T2V create failed (404): Not Found"}
      [] searchString = "mismatch" ->
             message \in {"Payment requirements mismatch for session"}
      [] OTHER -> FALSE

\* POST /sessions/:sessionId/payment: the status sent for an error of
\* confirmPayment.
paymentRouteStatus(message) ==
    IF includes(message, "not found") THEN 404
    ELSE IF includes(message, "mismatch") THEN 400
    ELSE 500

\* The ids randomUUID hands to the sessions of the create routes.
RouteIds == {"s1", "s2", "s3"}

\* The bodies posted to the create routes.
Bodies ==
    { Obj([input |-> Obj([prompt |-> Str(" a "), duration |-> Num(5)])]),
      Obj([input |-> Obj([prompt |-> Str("b"), image_model |-> Str("HUNYUAN"),
                          video_model |-> Str("KLINGIMGTOVIDTURBO")])]),
      Obj([input |-> Obj([prompt |-> Str("  ")])]),
      Obj([input |-> Obj([prompt |-> Num(5)])]),
      Obj([input |-> Obj([duration |-> Num(5)])]),
      Obj([input |-> Obj([prompt |-> Str("b"), duration |-> Str("5")])]),
      Obj([input |-> Obj([prompt |-> Str("b"), image_model |-> Str("NOPE")])]),
      Obj([input |-> Str("b")]),
      Obj([prompt |-> Str("b")]),
      Obj([x \in {} |-> x]),
      Arr }

\* POST /request_pricing: the body is parsed, and createSession is called for
\* an input that parsed.
RequestPricing(sid, body) ==
    LET parsed == parseCreateVideoInput(body)
    IN  IF parsed.ok
        THEN CreateSession(sid, parsed.input)
        ELSE /\ variant = "SessionService"
             /\ lastEvent' = Threw("request_pricing", "parse", NoValue, parsed.error, NoRun)
             /\ UNCHANGED <<variant, issued, serviceVars, proxyVars, listenerVars,
                            storeVars>>

\* POST /create of the proxy
PostCreate(sid, body) ==
    /\ variant = "PaymentCoordinator"
    /\ CreatePaywalledSession(sid, toCreatePayload(body))

RouteNext ==
    \/ \E sid \in RouteIds, body \in Bodies : RequestPricing(sid, body)
    \/ \E sid \in RouteIds, body \in Bodies : PostCreate(sid, body)

-----------------------------------------------------------------------------
(* Specifications *)

Init ==
    /\ variant \in {"SessionService", "PaymentCoordinator"}
    /\ sessions = <<>>
    /\ pollers = <<>>
    /\ confirms = EmptyBag
    /\ polls = EmptyBag
    /\ cache = <<>>
    /\ behavior \in [autoSubmitOnPayment : BOOLEAN, autoSettlePayments : BOOLEAN]
    /\ variant = "SessionService" =>
            behavior = [autoSubmitOnPayment |-> TRUE, autoSettlePayments |-> TRUE]
    /\ walletEvents = EmptyBag
    /\ issued = 0
    /\ lastEvent = Awaiting("init", "init", NoValue)
    /\ ListenerStart
    /\ StoreStart

Next == ServiceNext \/ ProxyNext

Spec == Init /\ [][Next]_vars

\* setInterval keeps firing the tick of a registered timer.
FairSpec == Spec /\ \A sid \in SessionIds : WF_vars(PollTick(sid))

\* The status answers that end the polling of a session.
FinalAnswers ==
    { status \in StatusResponses :
        /\ "status" \in DOMAIN status
        /\ \/ status.status = "COMPLETED" /\ "url" \in DOMAIN status
           \/ status.status = "FAILED" }

\* Fair interval ticks, a provider that keeps giving a final answer to status
\* queries, and notifications that resolve, so that a handler waiting for one
\* goes on (confirmPayment to schedulePoll, pollOnce to stopPoll).
CompletionSpec ==
    /\ FairSpec
    /\ \A sid \in SessionIds :
        /\ SF_vars(\E p \in BagToSet(polls), status \in FinalAnswers :
                      p.sid = sid /\ PollStatus(p, status))
        /\ WF_vars(\E c \in BagToSet(confirms) : c.sid = sid /\ ConfirmReturn(c))
        /\ WF_vars(\E p \in BagToSet(polls) : p.sid = sid /\ PollStop(p))

\* The listener alone: a process of its own, with the chain it watches.
ListenerInit ==
    /\ variant = "PaymentListenerService"
    /\ sessions = <<>>
    /\ pollers = <<>>
    /\ confirms = EmptyBag
    /\ polls = EmptyBag
    /\ cache = <<>>
    /\ behavior = [autoSubmitOnPayment |-> TRUE, autoSettlePayments |-> TRUE]
    /\ walletEvents = EmptyBag
    /\ issued = 0
    /\ lastEvent = Awaiting("init", "init", NoValue)
    /\ ListenerStart
    /\ StoreStart

ListenerSpec == ListenerInit /\ [][ListenerNext]_vars

\* The listener constructed on a chain that already holds a block with one
\* transfer: that block is mined before the first registerPayment call.
BacklogInit ==
    /\ variant = "PaymentListenerService"
    /\ sessions = <<>>
    /\ pollers = <<>>
    /\ confirms = EmptyBag
    /\ polls = EmptyBag
    /\ cache = <<>>
    /\ behavior = [autoSubmitOnPayment |-> TRUE, autoSettlePayments |-> TRUE]
    /\ walletEvents = EmptyBag
    /\ issued = 0
    /\ lastEvent = Awaiting("init", "init", NoValue)
    /\ paymentSessions = <<>>
    /\ networkStates = <<>>
    /\ states = <<>>
    /\ registrations = {}
    /\ scans = {}
    /\ chain \in { << <<log>> >> : log \in OneLog(<<>>, <<>>) }
    /\ detections = <<>>
    /\ StoreStart

BacklogSpec == BacklogInit /\ [][ListenerNext]_vars

\* The store alone, from bootstrap's call of init on: the session file is
\* missing or holds one record.
StoreInit ==
    /\ variant = "FileSessionStore"
    /\ sessions = <<>>
    /\ pollers = <<>>
    /\ confirms = EmptyBag
    /\ polls = EmptyBag
    /\ cache = <<>>
    /\ behavior = [autoSubmitOnPayment |-> TRUE, autoSettlePayments |-> TRUE]
    /\ walletEvents = EmptyBag
    /\ issued = 0
    /\ lastEvent = Awaiting("init", "init", NoValue)
    /\ ListenerStart
    /\ initialized = FALSE
    /\ file \in {ENOENT, Written("s1" :> StoreRecord("s1"))}
    /\ writeQueue = [links |-> <<>>, rejected |-> FALSE]
    /\ calls = << [StoreCall("init", NoValue, NoValue) EXCEPT !.pc = "readFile"] >>

StoreSpec == StoreInit /\ [][StoreNext]_vars

\* The create routes in front of SessionService or of the proxy.
RouteSpec == Init /\ [][RouteNext]_vars

\* The listener where the RPC node answers every call, every transfer pays the
\* merchant the required amount, and the provider may leave createVideo
\* unanswered for ever.
PaidBlock(block) ==
    \A i \in DOMAIN block :
        block[i].to = "0xMerchant" /\ block[i].value = RequiredAmount

StallNext ==
    \/ \E requirement \in ListenerRequirements : RegisterPayment(requirement)
    \/ \E registration \in registrations : EnsureNetworkState(registration)
    \/ \E registration \in registrations : RegistrationPoll(registration)
    \/ \E w \in DOMAIN states : TimerTick(w)
    \/ \E scan \in scans : ScanBlockNumber(scan)
    \/ \E scan \in scans : ScanLogs(scan)
    \/ \E scan \in scans, response \in CreateResponses : CreateVideoEnds(scan, response)
    \/ \E scan \in scans : CleanupSession(scan)
    \/ \E block \in { b \in Minable : PaidBlock(b) } : Mine(block)

\* setInterval keeps firing the timers, the RPC node answers, and a handler
\* whose await resolved goes on; nothing makes the provider answer.
StallFairness ==
    /\ WF_vars(\E registration \in registrations : EnsureNetworkState(registration))
    /\ WF_vars(\E registration \in registrations : RegistrationPoll(registration))
    /\ WF_vars(\E w \in DOMAIN states : TimerTick(w))
    /\ \A w \in DOMAIN ListenerIds :
        /\ WF_vars(\E scan \in scans : scan.state = w /\ ScanBlockNumber(scan))
        /\ WF_vars(\E scan \in scans : scan.state = w /\ ScanLogs(scan))
        /\ WF_vars(\E scan \in scans : scan.state = w /\ CleanupSession(scan))

StallSpec == ListenerInit /\ [][StallNext]_vars /\ StallFairness

\* The services that notify Agentverse: SessionService, or the listener with a
\* node that answers.
NotifyInit == (Init /\ variant = "SessionService") \/ ListenerInit

NotifyNext == ServiceNext \/ StallNext

NotifySpec == NotifyInit /\ [][NotifyNext]_vars

\* Blocks mined while the scans of a worker are followed.
MaxScanHeight == 3

\* The hash of the one transaction of block n.
ScanHashes == <<"0xh1", "0xh2", "0xh3", "0xh4">>

\* Block n with its one Transfer log: on the asset watched, to another address
\* than the merchant's, of an amount below, equal to or above the required one.
OtherBlocks(n) ==
    { <<[transactionHash |-> ScanHashes[n], address |-> "0xusdc",
         to |-> "0xOther", value |-> value]>> :
        value \in (RequiredAmount - 1) .. (RequiredAmount + 1) }

\* The chain grows by one such block.
MineOther(block) ==
    /\ variant = "PaymentListenerService"
    /\ Len(chain) < Min(MaxScanHeight, Len(ScanHashes))
    /\ block \in OtherBlocks(Len(chain) + 1)
    /\ chain' = Append(chain, block)
    /\ UNCHANGED <<paymentSessions, networkStates, states, registrations, scans,
                   detections>>
    /\ servicesIdle

\* The listener on a chain of such blocks, with a node whose calls may reject.
ScanNext ==
    \/ \E requirement \in ListenerRequirements : RegisterPayment(requirement)
    \/ \E registration \in registrations : EnsureNetworkState(registration)
    \/ \E registration \in registrations : RegistrationPoll(registration)
    \/ \E w \in DOMAIN states : TimerTick(w)
    \/ \E scan \in scans : ScanBlockNumber(scan)
    \/ \E scan \in scans : ScanThrows(scan)
    \/ \E scan \in scans : ScanLogs(scan)
    \/ \E block \in OtherBlocks(Len(chain) + 1) : MineOther(block)

ScanSpec == ListenerInit /\ [][ScanNext]_vars

\* The orchestrator alone, before any call of submitPaidRequest.
OrchestratorInit ==
    /\ variant = "T2VOrchestrator"
    /\ sessions = <<>>
    /\ pollers = <<>>
    /\ confirms = EmptyBag
    /\ polls = EmptyBag
    /\ cache = <<>>
    /\ behavior = [autoSubmitOnPayment |-> TRUE, autoSettlePayments |-> TRUE]
    /\ walletEvents = EmptyBag
    /\ issued = 0
    /\ lastEvent = Awaiting("init", "init", NoValue)
    /\ ListenerStart
    /\ StoreStart

OrchestratorSpec == OrchestratorInit /\ [][OrchestratorNext]_vars

\* The values a caller may leave in input.duration, typed or not.
QuoteDurations ==
    { Undefined, Str("5"), NaN, Infinity, Num(0 - 1), Num(0), Tenths(5), Tenths(59),
      Num(5), Num(180), Tenths(1805), Num(181) }

\* With: the records that have the field, and the one that lacks it.
Optional(field, values) ==
    { [x \in {} |-> x] } \cup { [x \in {field} |-> value] : value \in values }

\* The inputs quoted: any duration, image model and video model, or none.
QuoteInputs ==
    { [prompt |-> "a"] @@ duration @@ image @@ video :
        duration \in Optional("duration", QuoteDurations),
        image \in Optional("image_model", T2V_IMAGE_MODELS),
        video \in Optional("video_model", T2V_VIDEO_MODELS) }

\* T2VOrchestrator.quote: the breakdown with the total in minor units.
Quote(input) ==
    /\ variant = "T2VOrchestrator"
    /\ lastEvent' = Returned("quote", "return", NoValue,
                             calculateT2VCostBreakdown(input)
                                 @@ [totalMinorUnits |-> quote(input).totalMinorUnits],
                             input)
    /\ UNCHANGED <<variant, issued, serviceVars, proxyVars, listenerVars, storeVars>>

QuoteNext == \E input \in QuoteInputs : Quote(input)

QuoteSpec == OrchestratorInit /\ [][QuoteNext]_vars

-----------------------------------------------------------------------------
(* Properties *)

ServiceTerminal == {"completed", "failed"}
ProxyTerminal == {"forwarded", "failed"}

IsPrefix(s, t) == Len(s) <= Len(t) /\ SubSeq(t, 1, Len(s)) = s

Last(s) == s[Len(s)]

\* The requirement a wallet event is checked with.
RequirementOf(event, session) == Field(event, "paymentRequirements", session.requirement)

\* The two requirements differ in one of the payment terms.
TermsDiffer(expected, actual) ==
    \E k \in {"network", "asset", "payTo", "maxAmountRequired"} : expected[k] # actual[k]

\* lastEvent is the end (return or throw) of a confirmation of session sid.
ConfirmationEnded(op, sid) ==
    /\ lastEvent.op = op
    /\ lastEvent.sid = sid
    /\ lastEvent.outcome \in {"threw", "returned"}

PaymentRejected(run) ==
    run.verify = "invalid" \/ run.settle \in {"unsuccessful", "throws"}

SubmissionFailed(run) == run.submit \in {"throws", "no_request_id"}

\* C1: the provider is called, and the session advanced to payment_verified,
\* forwarding or creation_pending, only by a confirmation whose proof the
\* verifier did not report as invalid.
C1_ProviderOnlyAfterAcceptedProof ==
    /\ \A c \in BagToSet(confirms) :
            c.run.verify = "invalid" => c.pc \notin {"submit", "schedule"}
    /\ \A w \in BagToSet(walletEvents) :
            w.run.verify = "invalid" => w.pc \notin {"verified", "submit"}

\* C2: a confirmation with the stored requirement against a session in a
\* terminal status returns it without an error, changes nothing of the session
\* and calls neither the verifier, the settler nor the provider.
C2_TerminalConfirmationIsNoOp ==
    [][ /\ \A sid \in DOMAIN sessions, payload \in Payloads, options \in ConfirmationOptions :
              ( /\ sessions[sid].status \in ServiceTerminal
                /\ ConfirmPayment(sid, payload, sessions[sid].requirement, options) )
              => ( /\ sessions' = sessions
                   /\ confirms' = confirms
                   /\ lastEvent'.outcome = "returned" )
        /\ \A sid \in DOMAIN cache : \A event \in WalletEventsOf(sid) :
              ( /\ cache[sid].status \in ProxyTerminal
                /\ RequirementOf(event, cache[sid]) = cache[sid].requirement
                /\ RecordWalletEvent(event) )
              => ( /\ cache' = cache
                   /\ walletEvents' = walletEvents
                   /\ lastEvent'.outcome = "returned" ) ]_vars

\* C3: a second confirmPayment right after the return of a first one whose proof
\* the verifier accepted, with the same proof and the stored requirement, makes
\* no call, leaves the session as it is and returns the session the first
\* call returned.
C3_SecondConfirmationIsIdempotent ==
    [][ \A sid \in DOMAIN sessions, options \in ConfirmationOptions :
            ( /\ ConfirmationEnded("confirmPayment", sid)
              /\ lastEvent.outcome = "returned"
              /\ lastEvent.run.verify = "valid"
              /\ sessions[sid] = lastEvent.session
              /\ ConfirmPayment(sid, sessions[sid].lastPaymentPayload,
                                sessions[sid].requirement, options) )
            => ( /\ sessions' = sessions
                 /\ confirms' = confirms
                 /\ lastEvent'.outcome = "returned"
                 /\ lastEvent'.session = lastEvent.session ) ]_vars

\* C4: a confirmation whose requirement differs from the stored one in network,
\* asset, payTo or maxAmountRequired throws the mismatch error, leaves the
\* session as it is and makes no call.
C4_MismatchAlwaysFails ==
    [][ /\ \A sid \in DOMAIN sessions, payload \in Payloads, options \in ConfirmationOptions :
            \A requirements \in RequirementVariants(sessions[sid].requirement) :
              ( /\ TermsDiffer(sessions[sid].requirement, requirements)
                /\ ConfirmPayment(sid, payload, requirements, options) )
              => ( /\ lastEvent'.outcome = "threw"
                   /\ lastEvent'.error = "Payment requirements mismatch for session"
                   /\ sessions' = sessions
                   /\ confirms' = confirms )
        /\ \A sid \in DOMAIN cache : \A event \in WalletEventsOf(sid) :
              ( /\ TermsDiffer(cache[sid].requirement, RequirementOf(event, cache[sid]))
                /\ RecordWalletEvent(event) )
              => ( /\ lastEvent'.outcome = "threw"
                   /\ lastEvent'.error = "400 Payment requirement mismatch"
                   /\ cache' = cache
                   /\ walletEvents' = walletEvents ) ]_vars

\* C5: when a confirmation of a session that was not terminal has ended and the
\* verifier had reported its proof invalid, or the settler had answered
\* unsuccessful or thrown, the session is failed with a failure reason and a
\* failed history entry.
C5_RejectedPaymentFailsSession ==
    /\ \A sid \in DOMAIN sessions :
            ( /\ ConfirmationEnded("confirmPayment", sid)
              /\ ~lastEvent.run.onTerminal
              /\ PaymentRejected(lastEvent.run) )
            => ( /\ sessions[sid].status = "failed"
                 /\ sessions[sid].failureReason # NoValue
                 /\ \E i \in DOMAIN sessions[sid].history :
                        sessions[sid].history[i].status = "failed" )
    /\ \A sid \in DOMAIN cache :
            ( /\ ConfirmationEnded("recordWalletEvent", sid)
              /\ ~lastEvent.run.onTerminal
              /\ PaymentRejected(lastEvent.run) )
            => ( /\ cache[sid].status = "failed"
                 /\ cache[sid].error # NoError
                 /\ \E i \in DOMAIN cache[sid].events :
                        cache[sid].events[i].status = "failed" )

\* C6: when a confirmation has ended whose provider submission threw or came
\* back without a request id, the session is failed with the error in its
\* failure reason and history, and is not in payment_confirmed or forwarding.
C6_FailedSubmissionFailsSession ==
    /\ \A sid \in DOMAIN sessions :
            ( /\ ConfirmationEnded("confirmPayment", sid)
              /\ SubmissionFailed(lastEvent.run) )
            => ( /\ sessions[sid].status = "failed"
                 /\ sessions[sid].failureReason # NoValue
                 /\ Last(sessions[sid].history).status = "failed" )
    /\ \A sid \in DOMAIN cache :
            ( /\ ConfirmationEnded("recordWalletEvent", sid)
              /\ SubmissionFailed(lastEvent.run) )
            => ( /\ cache[sid].status = "failed"
                 /\ cache[sid].error # NoError
                 /\ Last(cache[sid].events).status = "failed" )

\* C7: no step of pollOnce (a tick, a status response, the stop) changes the
\* status of a session that is completed or failed.
C7_PollKeepsTerminalStatus ==
    [][ \A sid \in DOMAIN sessions :
            ( /\ sessions[sid].status \in ServiceTerminal
              /\ lastEvent'.op = "pollOnce"
              /\ lastEvent'.sid = sid )
            => sessions'[sid].status = sessions[sid].status ]_vars

\* One step on a history: what was there stays, at most one entry is added,
\* a change of status adds exactly one, and the last entry has the status.
AppendsOnly(before, after, statusBefore, statusAfter) ==
    /\ IsPrefix(before, after)
    /\ Len(after) <= Len(before) + 1
    /\ statusAfter # statusBefore => Len(after) = Len(before) + 1
    /\ Last(after).status = statusAfter

\* C8: history (events) is append-only, every change of status appends exactly
\* one entry, and the last entry's status is the session's status; a session
\* once stored stays stored and starts with one entry.
C8_HistoryAppendOnly ==
    [][ /\ \A sid \in DOMAIN sessions :
              /\ sid \in DOMAIN sessions'
              /\ AppendsOnly(sessions[sid].history, sessions'[sid].history,
                             sessions[sid].status, sessions'[sid].status)
        /\ \A sid \in DOMAIN sessions' \ DOMAIN sessions :
              /\ Len(sessions'[sid].history) = 1
              /\ Last(sessions'[sid].history).status = sessions'[sid].status
        /\ \A sid \in DOMAIN cache :
              /\ sid \in DOMAIN cache'
              /\ AppendsOnly(cache[sid].events, cache'[sid].events,
                             cache[sid].status, cache'[sid].status)
        /\ \A sid \in DOMAIN cache' \ DOMAIN cache :
              /\ Len(cache'[sid].events) = 1
              /\ Last(cache'[sid].events).status = cache'[sid].status ]_vars

\* A session whose status changed four times, with an entry for each.
C8_Witness ==
    \E sid \in DOMAIN sessions :
        /\ Len(sessions[sid].history) = 5
        /\ sessions[sid].status = "completed"
        /\ \A i \in 1..4 : sessions[sid].history[i].status # sessions[sid].history[i + 1].status

\* The place of a status in the session state machine.
Rank(status) ==
    CASE status = "payment_pending" -> 1
      [] status \in {"payment_confirmed", "payment_verified"} -> 2
      [] status \in {"creation_pending", "forwarding"} -> 3
      [] status = "creation_in_progress" -> 4
      [] status \in {"completed", "forwarded", "failed"} -> 5

\* An entry with status b may follow an entry with status a.
ValidSuccessor(a, b) ==
    /\ a \notin {"completed", "forwarded", "failed"}
    /\ Rank(a) <= Rank(b)

FollowsStateMachine(history) ==
    /\ history[1].status = "payment_pending"
    /\ \A i \in 1..(Len(history) - 1) :
            ValidSuccessor(history[i].status, history[i + 1].status)

\* C9: every history starts with payment_pending, no entry returns to an
\* earlier status and none follows a completed, forwarded or failed entry.
C9_HistoryFollowsStateMachine ==
    /\ \A sid \in DOMAIN sessions : FollowsStateMachine(sessions[sid].history)
    /\ \A sid \in DOMAIN cache : FollowsStateMachine(cache[sid].events)

\* A timer is registered for a session that is completed or failed.
TimerOnTerminal(sid) ==
    /\ sid \in DOMAIN pollers
    /\ sid \in DOMAIN sessions
    /\ sessions[sid].status \in ServiceTerminal

\* C10: the step on which a pollOnce that observed or produced completed or
\* failed returns leaves no timer for the session in pollers, and a timer
\* registered for a terminal session does not stay: it is removed (or the
\* session leaves the terminal status).
C10_PollerStopsItself ==
    /\ [][ /\ \A sid \in DOMAIN sessions :
                  (sessions[sid].status \in ServiceTerminal /\ PollTick(sid))
                  => sid \notin DOMAIN pollers'
            /\ \A p \in BagToSet(polls) :
                  PollStop(p) => p.sid \notin DOMAIN pollers' ]_vars
    /\ \A sid \in SessionIds : TimerOnTerminal(sid) ~> ~TimerOnTerminal(sid)

\* The pollOnce that produced completed or failed has returned and the timer
\* is gone.
C10_Witness ==
    /\ lastEvent = Polled("stop", lastEvent.sid, "terminal")
    /\ sessions[lastEvent.sid].status \in ServiceTerminal
    /\ lastEvent.sid \notin DOMAIN pollers


-----------------------------------------------------------------------------
(* Properties of PaymentListenerService *)

\* The session ids pollNetwork tries for log i of `logs`: those left for the
\* log in hand, those indexed under the log's asset for a log whose hash is
\* seen for the first time, none for a log whose hash was seen before.
TriedFor(state, logs, started, queue, i) ==
    IF i = 1 /\ started THEN queue
    ELSE IF \/ logs[i].transactionHash \in state.processedTxHashes
            \/ \E j \in 1 .. (i - 1) : logs[j].transactionHash = logs[i].transactionHash
         THEN <<>>
         ELSE IF normalizeAddress(logs[i].address) \in DOMAIN state.sessionsByAsset
              THEN state.sessionsByAsset[normalizeAddress(logs[i].address)]
              ELSE <<>>

\* The pairs <<i, k>> of a log and the place of a session tried for it such
\* that the session is pending, the log pays its payTo address and the log's
\* value is at least its maxAmountRequired.
Payments(state, sessionsById, logs, started, queue) ==
    { pair \in (DOMAIN logs) \X (1 .. Len(ListenerIds)) :
        /\ pair[2] \in DOMAIN TriedFor(state, logs, started, queue, pair[1])
        /\ LET sessionId == TriedFor(state, logs, started, queue, pair[1])[pair[2]]
           IN  /\ sessionId \in DOMAIN sessionsById
               /\ sessionsById[sessionId].status = "pending"
               /\ normalizeAddress(sessionsById[sessionId].requirement.payTo)
                      = normalizeAddress(logs[pair[1]].to)
               /\ logs[pair[1]].value
                      >= sessionsById[sessionId].requirement.maxAmountRequired }

FirstOf(pairs) ==
    CHOOSE first \in pairs :
        \A pair \in pairs :
            \/ first[1] < pair[1]
            \/ first[1] = pair[1] /\ first[2] <= pair[2]

\* The step calls handlePaymentDetected for the first payment among the logs,
\* with that log's transaction hash.
HandsFirstPayment(state, sessionsById, logs, started, queue) ==
    LET pairs == Payments(state, sessionsById, logs, started, queue)
        first == FirstOf(pairs)
    IN  pairs # {} =>
            detections' = Append(detections,
                [sessionId |-> TriedFor(state, logs, started, queue, first[1])[first[2]],
                 transactionHash |-> logs[first[1]].transactionHash])

\* C11: when pollNetwork goes through the logs of a scan (after getLogs
\* resolved, and again after each handlePaymentDetected returned), the first
\* log on the asset of a pending session that pays the session's payTo address
\* a value equal to or above maxAmountRequired is accepted: the session is
\* handed to handlePaymentDetected with that log's transaction hash.
C11_QualifyingTransferAccepted ==
    [][ \A scan \in scans :
          /\ ScanLogs(scan) =>
                HandsFirstPayment(states[scan.state], paymentSessions,
                    getLogs(chain, scan.addresses, scan.fromBlock, scan.toBlock),
                    FALSE, <<>>)
          /\ CleanupSession(scan) =>
                LET left == cleanupSession(paymentSessions, networkStates, states,
                                scan.session, scan.network, scan.assetAddress)
                IN  HandsFirstPayment(left.states[scan.state], left.sessions,
                                      scan.logs, TRUE, scan.queue) ]_vars

\* An exact payment and an overpayment have each been accepted.
C11_Witness ==
    /\ Len(chain) = 2
    /\ chain[1] # <<>> /\ chain[1][1].value = RequiredAmount
    /\ chain[2] # <<>> /\ chain[2][1].value > RequiredAmount
    /\ detections = << [sessionId |-> "p1", transactionHash |-> chain[1][1].transactionHash],
                       [sessionId |-> "p2", transactionHash |-> chain[2][1].transactionHash] >>


\* The session is in the index of a worker networkStates holds.
Watched(sessionId, byNetwork, objects) ==
    \E network \in DOMAIN byNetwork :
        LET state == objects[byNetwork[network]]
        IN  \E asset \in state.assets \intersect DOMAIN state.sessionsByAsset :
                \E k \in DOMAIN state.sessionsByAsset[asset] :
                    state.sessionsByAsset[asset][k] = sessionId

\* Every log among `logs` that pays the session's payTo address on its asset
\* carries less than its maxAmountRequired.
AllBelow(session, logs) ==
    \A i \in DOMAIN logs :
        ( /\ normalizeAddress(logs[i].address) = normalizeAddress(session.requirement.asset)
          /\ normalizeAddress(logs[i].to) = normalizeAddress(session.requirement.payTo) )
        => logs[i].value < session.requirement.maxAmountRequired

\* The step leaves the session as it is: same record (pending stays pending),
\* no handlePaymentDetected call for it, and still watched if it was.
LeavesSession(sessionId) ==
    /\ sessionId \in DOMAIN paymentSessions'
    /\ paymentSessions'[sessionId] = paymentSessions[sessionId]
    /\ \A i \in DOMAIN detections' :
            detections'[i].sessionId = sessionId => i \in DOMAIN detections
    /\ Watched(sessionId, networkStates, states)
            => Watched(sessionId, networkStates', states')

\* C12: when pollNetwork goes through the logs of a scan, a pending session
\* that the logs pay only amounts below its maxAmountRequired is left
\* unchanged: it stays pending, it is not handed to handlePaymentDetected (so
\* nothing is submitted to the provider for it) and it stays in the worker's
\* asset/session index.
C12_UnderpaymentLeavesSession ==
    [][ \A scan \in scans : \A sessionId \in DOMAIN paymentSessions :
          /\ ( /\ ScanLogs(scan)
               /\ paymentSessions[sessionId].status = "pending"
               /\ AllBelow(paymentSessions[sessionId],
                      getLogs(chain, scan.addresses, scan.fromBlock, scan.toBlock)) )
             => LeavesSession(sessionId)
          /\ ( /\ CleanupSession(scan)
               /\ paymentSessions[sessionId].status = "pending"
               /\ AllBelow(paymentSessions[sessionId], scan.logs) )
             => LeavesSession(sessionId) ]_vars

\* A scan has gone through a transfer to the merchant below the required
\* amount, the only log there is, and the session it would pay is pending and
\* watched.
C12_Witness ==
    /\ Len(Flatten(chain)) = 1
    /\ Flatten(chain)[1].to = "0xMerchant"
    /\ Flatten(chain)[1].value < RequiredAmount
    /\ "p1" \in DOMAIN paymentSessions
    /\ paymentSessions["p1"].status = "pending"
    /\ Watched("p1", networkStates, states)
    /\ scans = {}
    /\ \E network \in DOMAIN networkStates :
            states[networkStates[network]].processedTxHashes # {}


\* Two logs on the chain carry the same transaction hash.
SameHashTwice ==
    \E i, j \in DOMAIN Flatten(chain) :
        i < j /\ Flatten(chain)[i].transactionHash = Flatten(chain)[j].transactionHash

\* C13: when two transfer logs of a network carry the same transaction hash,
\* handlePaymentDetected is called at most once with that hash.
C13_OneAttemptPerHash ==
    SameHashTwice =>
        \A i, j \in DOMAIN detections :
            detections[i].transactionHash = detections[j].transactionHash => i = j


\* The handlePaymentDetected calls that have not returned: each is at its
\* createVideo call or past it.
Handling(sessionId) ==
    { scan \in scans : scan.pc \in {"createVideo", "notifyAgentverse"}
                       /\ scan.session = sessionId }

\* C14: a session is handed to handlePaymentDetected at most once over its
\* lifetime, and so createVideo is called at most once for it, however many
\* transfers of a scan or of later scans satisfy it.
C14_SessionHandledOnce ==
    /\ \A i, j \in DOMAIN detections :
            detections[i].sessionId = detections[j].sessionId => i = j
    /\ \A i \in DOMAIN ListenerIds : Cardinality(Handling(ListenerIds[i])) <= 1

\* One scan went through a block of two transfers with different hashes that
\* each satisfy the only session, and has returned.
C14_Witness ==
    /\ Len(chain) = 1
    /\ Len(chain[1]) = 2
    /\ chain[1][1].transactionHash # chain[1][2].transactionHash
    /\ \A i \in 1 .. 2 : chain[1][i].to = "0xMerchant" /\ chain[1][i].value >= RequiredAmount
    /\ detections = << [sessionId |-> "p1", transactionHash |-> chain[1][1].transactionHash] >>
    /\ paymentSessions = <<>>
    /\ scans = {}
    /\ registrations = {}


\* The worker's lastBlock when the scan started: pollNetwork computed
\* fromBlock as lastBlock + 1.
LastBlockAtStart(scan) ==
    IF scan.pc = "getLogs" THEN scan.fromBlock - 1 ELSE states[scan.state].lastBlock

\* C15: when client.getBlockNumber() or client.getLogs() rejects in a scan,
\* the scan ends with the worker's lastBlock where it was when the scan
\* started, so that the next scan starts from the same block.
C15_FailedScanKeepsLastBlock ==
    [][ \A scan \in scans :
          ( /\ ScanThrows(scan)
            /\ scan.network \in DOMAIN networkStates'
            /\ networkStates'[scan.network] = scan.state )
          => states'[scan.state].lastBlock = LastBlockAtStart(scan) ]_vars


\* C16: at any time at most one pollNetwork scan is in progress per network.
C16_OneScanPerNetwork ==
    \A network \in NETWORK_TO_CHAIN :
        Cardinality({ scan \in scans : scan.network = network }) <= 1


\* The asset is in the watch set (assets and sessionsByAsset) of the worker
\* that networkStates holds for the network.
AssetWatched(byNetwork, objects, network, asset) ==
    /\ network \in DOMAIN byNetwork
    /\ asset \in objects[byNetwork[network]].assets
    /\ asset \in DOMAIN objects[byNetwork[network]].sessionsByAsset

\* The sessions other than sessionId that await payment on the asset.
OthersAwaiting(sessionsById, sessionId, network, asset) ==
    { other \in DOMAIN sessionsById \ {sessionId} :
        /\ sessionsById[other].status = "pending"
        /\ sessionsById[other].requirement.network = network
        /\ normalizeAddress(sessionsById[other].requirement.asset) = asset }

\* registerPayment has put the session into a worker's index and has not
\* returned yet.
JustRegistered(sessionId) ==
    \E registration \in registrations :
        registration.sessionId = sessionId /\ registration.pc # "getBlockNumber"

\* C17: right after cleanupSession removed a session that reached completed or
\* failed, the session's asset is in the watch set of the network's worker
\* exactly if another registered session still awaits payment on that asset:
\* it is watched when such a session has just been registered, and when it is
\* watched some other session awaits payment on it.
C17_AssetWatchedIffAwaited ==
    [][ \A scan \in scans :
          CleanupSession(scan) =>
            LET left == cleanupSession(paymentSessions, networkStates, states,
                            scan.session, scan.network, scan.assetAddress)
                others == OthersAwaiting(left.sessions, scan.session, scan.network,
                                         scan.assetAddress)
                watched == AssetWatched(left.networkStates, left.states,
                                        scan.network, scan.assetAddress)
            IN  /\ (\E other \in others : JustRegistered(other)) => watched
                /\ watched => others # {} ]_vars


\* C18: an interval timer of a network is live only while the listener holds a
\* session of that network (one that cleanupSession has not removed yet).
C18_NoTimerWithoutSession ==
    \A w \in DOMAIN states :
        states[w].timer =>
            \E sessionId \in DOMAIN paymentSessions :
                paymentSessions[sessionId].requirement.network = states[w].network


\* The step is the return of the registerPayment call of `registration`.
Returns(registration) ==
    /\ registration \in registrations
    /\ registration.pc # "getBlockNumber"
    /\ \A other \in registrations' : other.sessionId # registration.sessionId

\* C19: when registerPayment returns a session that still awaits payment, the
\* session's id is in sessionsByAsset, and its asset in assets, of the worker
\* that networkStates holds for its network.
C19_ReturnedSessionIsWatched ==
    [][ \A registration \in registrations :
          ( /\ Returns(registration)
            /\ registration.sessionId \in DOMAIN paymentSessions'
            /\ paymentSessions'[registration.sessionId].status = "pending" )
          => Watched(registration.sessionId, networkStates', states') ]_vars


\* The session awaits payment in the index of its network's worker, no
\* ensureNetworkState call is about to replace that worker, and a block the
\* worker has not scanned yet holds a transfer.
TransferAhead(sessionId) ==
    /\ sessionId \in DOMAIN paymentSessions
    /\ paymentSessions[sessionId].status = "pending"
    /\ Watched(sessionId, networkStates, states)
    /\ \A registration \in registrations : registration.pc # "getBlockNumber"
    /\ \E b \in DOMAIN chain :
          /\ chain[b] # <<>>
          /\ b > states[networkStates[paymentSessions[sessionId].requirement.network]].lastBlock

\* handlePaymentDetected waits for createVideo for another session.
OtherStalled(sessionId) ==
    \E scan \in scans : scan.pc = "createVideo" /\ scan.session # sessionId

Detected(sessionId) ==
    \E i \in DOMAIN detections : detections[i].sessionId = sessionId

\* C20: while createVideo is outstanding for one session, a transfer that
\* satisfies another pending session and lies in a block not scanned yet is
\* eventually detected: the other session is handed to handlePaymentDetected.
C20_StallDoesNotDelayOthers ==
    \A i \in DOMAIN ListenerIds :
        (TransferAhead(ListenerIds[i]) /\ OtherStalled(ListenerIds[i]))
            ~> Detected(ListenerIds[i])

-----------------------------------------------------------------------------
(* Properties of FileSessionStore *)

\* The calls of update for an id with an updater that have gone past
\* ensureReady, that is, have run cache.get, the updater and cache.set.
Applied(id, name) ==
    {run \in DOMAIN calls :
        /\ calls[run].op = "update"
        /\ calls[run].id = id
        /\ calls[run].updater = name
        /\ calls[run].pc # "ensureReady"}

Occurrences(seq, value) == Cardinality({i \in DOMAIN seq : seq[i] = value})

Inserted(id) == \E run \in DOMAIN calls : calls[run].op = "insert" /\ calls[run].id = id

\* C21: concurrent updates of one id lose no update.  For a record that was
\* read from the file and never inserted again, the cache's record carries
\* every updater exactly as often as an update with it has run, in some order:
\* after update(id, f) and update(id, g) it is g(f(r)) or f(g(r)) and never
\* f(r) or g(r) alone.
C21_NoLostUpdate ==
    \A id \in StoreIds :
        id \in DOMAIN cache /\ ~Inserted(id) =>
            /\ Len(cache[id].applied) =
                   Cardinality(UNION {Applied(id, name) : name \in Updaters})
            /\ \A name \in Updaters :
                   Occurrences(cache[id].applied, name) = Cardinality(Applied(id, name))

\* Two updates of one record with different updaters, called before either
\* returned: both have run their updater and both wait in the write queue.
C21_Witness ==
    \E id \in StoreIds :
        /\ id \in DOMAIN cache
        /\ ~Inserted(id)
        /\ Len(writeQueue.links) = 2
        /\ \A i \in DOMAIN writeQueue.links :
               calls[writeQueue.links[i]].op = "update" /\ calls[writeQueue.links[i]].id = id
        /\ calls[writeQueue.links[1]].updater # calls[writeQueue.links[2]].updater
        /\ Len(cache[id].applied) = 2

\* C22: insert of a record whose id the cache already holds throws and leaves
\* the record the cache held in place.
C22_DuplicateInsertThrows ==
    [][\A run \in DOMAIN calls :
          Insert(run) /\ calls[run].id \in DOMAIN cache =>
              calls'[run].pc = "thrown" /\ cache' = cache]_vars

\* C39: a failed write does not disable persistence.  An insert, or an update
\* of a record the cache holds, that is called after an earlier persist has
\* failed gets its own persist queued or started: it does not throw at
\* enqueuePersist without a write of its own having been tried.
C39_FailedWriteDoesNotDisable ==
    [][\A run \in DOMAIN calls :
          /\ writeQueue.rejected
          /\ Insert(run) \/ (Update(run) /\ calls[run].id \in DOMAIN cache)
          => calls'[run].pc \in {"mkdir", "writeQueue"}]_vars

-----------------------------------------------------------------------------
(* Properties of the quote *)

\* C23: in every state the amount of a session's requirement is the total of
\* its quote.  In SessionService maxAmountRequired is the credits of the input
\* times the price of a credit and equals quote.totalMinorUnits; in the proxy
\* it is the flat fee and equals quote.amountMinorUnits.
C23_RequirementEqualsQuote ==
    /\ \A sid \in DOMAIN sessions :
           LET session == sessions[sid]
           IN  /\ session.quote.totalCredits =
                      calculateT2VCostBreakdown(session.input).totalCredits
               /\ session.requirement.maxAmountRequired =
                      session.quote.totalCredits * paymentConfig.pricePerCreditMinorUnits
               /\ session.requirement.maxAmountRequired = session.quote.totalMinorUnits
    /\ \A sid \in DOMAIN cache :
           /\ cache[sid].requirement.maxAmountRequired = proxyPayment.amountMinorUnits
           /\ cache[sid].requirement.maxAmountRequired = cache[sid].quote.amountMinorUnits

\* A session whose credits were rounded up from a half (112.5 to 113), after
\* its payment was confirmed and its request submitted.
C23_Witness ==
    \E sid \in DOMAIN sessions :
        /\ sessions[sid].input.prompt = "c"
        /\ sessions[sid].quote.totalCredits = 113
        /\ sessions[sid].requirement.maxAmountRequired = 1130000
        /\ sessions[sid].status = "creation_pending"

-----------------------------------------------------------------------------
(* Further properties of SessionService and PaymentCoordinator *)

\* C24: a session whose status is the success-terminal one (completed in
\* SessionService, forwarded in PaymentCoordinator) holds a samsarRequestId
\* that is present and not empty.
C24_SuccessHasRequestId ==
    /\ \A sid \in DOMAIN sessions :
           sessions[sid].status = "completed" =>
               sessions[sid].samsarRequestId \notin {NoValue, ""}
    /\ \A sid \in DOMAIN cache :
           cache[sid].status = "forwarded" =>
               cache[sid].samsarRequestId \notin {NoValue, ""}

\* The provider reports COMPLETED together with a result URL.
CompletedWithUrl(status) ==
    "status" \in DOMAIN status /\ status.status = "COMPLETED" /\ "url" \in DOMAIN status

ReportsFailed(status) == "status" \in DOMAIN status /\ status.status = "FAILED"

\* C25: when getStatus answers a pollOnce, the session becomes completed only
\* for COMPLETED with a result URL, which is then stored as resultUrl, and
\* failed only for FAILED; after any other answer the session is in
\* creation_in_progress and its poller is still registered.
C25_PollOutcomeFollowsResponse ==
    [][\A p \in BagToSet(polls), status \in StatusResponses :
          PollStatus(p, status) =>
              /\ sessions'[p.sid].status = "completed" =>
                     CompletedWithUrl(status) /\ sessions'[p.sid].resultUrl = status.url
              /\ sessions'[p.sid].status = "failed" => ReportsFailed(status)
              /\ ~CompletedWithUrl(status) /\ ~ReportsFailed(status) =>
                     /\ sessions'[p.sid].status = "creation_in_progress"
                     /\ p.sid \in DOMAIN pollers']_vars

-----------------------------------------------------------------------------
(* Properties of the routes *)

\* A JSON object with a prompt that is a string with more than white space.
HasPrompt(value) ==
    /\ Has(value, "prompt")
    /\ Get(value, "prompt").type = "string"
    /\ trim(Get(value, "prompt").text) # ""

\* The body of a create request is malformed: it is not a JSON object, or
\* neither it nor its input carries a non-empty prompt.
Malformed(body) ==
    \/ body.type # "object"
    \/ ~HasPrompt(body) /\ ~HasPrompt(Get(body, "input"))

\* C26: a create request with a malformed body is rejected before anything is
\* stored: neither SessionService nor the proxy's store holds a session more
\* than before, and no session id is handed out.
C26_MalformedCreateStoresNothing ==
    [][\A sid \in RouteIds, body \in Bodies :
          (RequestPricing(sid, body) \/ PostCreate(sid, body)) /\ Malformed(body) =>
              /\ sessions' = sessions
              /\ cache' = cache
              /\ lastEvent'.outcome = "threw"]_vars

-----------------------------------------------------------------------------
(* Properties of the notifications *)

\* C27: a notification that fails is not a failure of the operation that sent
\* it.  Every step of createSession, of a caller of applyUpdate (confirmPayment,
\* pollOnce), of registerPayment and of handlePaymentDetected that follows a
\* notification is the step taken when the notification succeeds: the same
\* status and history are stored, the same value is returned, and the handler
\* goes on as it does then; and no handler, confirmPayment's first applyUpdate
\* included, ends by throwing the notification's error.
C27_SinkFailureNotPropagated ==
    [][/\ \A sid \in SessionIds, input \in Inputs :
              CreateSession(sid, input) => CreateSessionReturns(sid, input)
       /\ \A c \in BagToSet(confirms), response \in CreateResponses :
              ConfirmSubmitted(c, response) => ConfirmSubmittedGoesOn(c, response)
       /\ \A p \in BagToSet(polls), status \in StatusResponses :
              PollStatus(p, status) => PollStatusApplied(p, status)
       /\ \A registration \in registrations :
              RegistrationPoll(registration) => RegistrationPolls(registration)
       /\ \A scan \in scans :
              CleanupSession(scan) => CleanupGoesOn(scan)
       /\ lastEvent'.outcome = "threw" => lastEvent'.error # SinkError]_vars

\* registerPayment has sent its notification and called pollNetwork, and a
\* session's handlePaymentDetected has sent its last notification and cleaned
\* the session up.
C27_Witness ==
    /\ \E registration \in registrations : registration.pc = "pollNetwork"
    /\ \E i \in DOMAIN ListenerIds :
           /\ ListenerIds[i] \in DOMAIN paymentSessions
           /\ paymentSessions[ListenerIds[i]].status = "completed"
           /\ ~Watched(ListenerIds[i], networkStates, states)

\* C28: the payment route answers an error of confirmPayment by its kind: 404
\* exactly when the session id is unknown, 400 exactly when the requirement
\* sent differs from the stored one, and 500 for every other error (of the
\* verifier, the settler or the provider), whatever its message says.
C28_StatusByErrorKind ==
    lastEvent.op = "confirmPayment" /\ lastEvent.outcome = "threw" =>
        LET status == paymentRouteStatus(lastEvent.error)
            unknown == lastEvent.step = "start" /\ lastEvent.sid \notin DOMAIN sessions
            mismatch ==
                /\ lastEvent.step = "start"
                /\ lastEvent.sid \in DOMAIN sessions
                /\ lastEvent.error = "Payment requirements mismatch for session"
        IN  /\ status = 404 <=> unknown
            /\ status = 400 <=> mismatch
            /\ ~unknown /\ ~mismatch => status = 500


-----------------------------------------------------------------------------
(* Properties of the scans *)

\* The blocks whose logs the worker has gone through: those holding a
\* transaction hash it has recorded.
Queried(state) ==
    { n \in DOMAIN chain :
        \E i \in DOMAIN chain[n] :
            chain[n][i].transactionHash \in state.processedTxHashes }

Highest(blocks) == CHOOSE n \in blocks : \A m \in blocks : m <= n

\* After the step the NetworkState is the network's worker or that of a scan.
InReach(w) ==
    \/ \E network \in DOMAIN networkStates' : networkStates'[network] = w
    \/ \E scan \in scans' : scan.state = w

\* C29: a scan that finds the height above lastBlock asks getLogs for the
\* blocks lastBlock + 1 .. height, and when getLogs resolves the worker goes
\* through the logs of exactly these blocks; they are blocks it has not gone
\* through before, and they follow the last block it has gone through without
\* a gap; lastBlock never decreases; a scan that finds the height at or below
\* lastBlock asks for no logs and leaves sessions, workers and the worker's
\* fields as they were (it lowers the polling flag it raised).
C29_ScansContiguous ==
    [][ /\ \A scan \in scans :
            LET state == states[scan.state]
                latestBlock == getBlockNumber(chain)
                range == scan.fromBlock .. scan.toBlock
                kept == /\ scan.network \in DOMAIN networkStates'
                        /\ networkStates'[scan.network] = scan.state
            IN  /\ (ScanBlockNumber(scan) /\ latestBlock <= state.lastBlock) =>
                      /\ UNCHANGED <<paymentSessions, networkStates, detections>>
                      /\ \A next \in scans' : next \in scans
                      /\ kept => states'[scan.state] = [state EXCEPT !.polling = FALSE]
                      /\ \A w \in DOMAIN states \ {scan.state} : states'[w] = states[w]
                /\ (ScanBlockNumber(scan) /\ latestBlock > state.lastBlock) =>
                      \E next \in scans' \ scans :
                          /\ next.pc = "getLogs"
                          /\ next.fromBlock = state.lastBlock + 1
                          /\ next.toBlock = latestBlock
                /\ (ScanLogs(scan) /\ kept) =>
                      /\ Queried(states'[scan.state]) = Queried(state) \union range
                      /\ Queried(state) \intersect range = {}
                      /\ Queried(state) # {} =>
                            scan.fromBlock = Highest(Queried(state)) + 1
        /\ \A w \in DOMAIN states :
            InReach(w) => states'[w].lastBlock >= states[w].lastBlock ]_vars


\* No Transfer log on the chain names the session's payTo address as recipient.
PaidElsewhere(session) ==
    \A i \in DOMAIN Flatten(chain) :
        normalizeAddress(Flatten(chain)[i].to)
            # normalizeAddress(session.requirement.payTo)

\* C30: a session whose payTo address differs from the recipient of every
\* transfer on the chain, whatever the transfers' values and although they are
\* on the session's asset, is never confirmed: it stays pending, it is not
\* handed to handlePaymentDetected and no createVideo call is made for it.
C30_OtherRecipientNeverConfirms ==
    \A sessionId \in DOMAIN paymentSessions :
        PaidElsewhere(paymentSessions[sessionId]) =>
            /\ paymentSessions[sessionId].status = "pending"
            /\ paymentSessions[sessionId].transactionHash = NoValue
            /\ \A i \in DOMAIN detections : detections[i].sessionId # sessionId
            /\ Handling(sessionId) = {}

\* The worker that watches the pending session p1 has gone through two
\* transfers to another address on p1's asset, one of the required amount
\* and one above it, and its scans have returned.
C30_Witness ==
    /\ "p1" \in DOMAIN paymentSessions
    /\ Len(chain) = 2
    /\ chain[1][1].value = RequiredAmount
    /\ chain[2][1].value > RequiredAmount
    /\ \A n \in 1 .. 2 :
        /\ normalizeAddress(chain[n][1].address)
               = normalizeAddress(paymentSessions["p1"].requirement.asset)
        /\ chain[n][1].to = "0xOther"
    /\ "base" \in DOMAIN networkStates
    /\ Watched("p1", networkStates, states)
    /\ states[networkStates["base"]].processedTxHashes = {"0xh1", "0xh2"}
    /\ paymentSessions["p1"].status = "pending"
    /\ scans = {}


-----------------------------------------------------------------------------
(* Properties of T2VOrchestrator *)

\* The requirement names another asset, network or destination than the
\* configuration, or an amount below the quote of the input.
Unacceptable(input, paymentRequirements) ==
    \/ paymentRequirements.asset # paymentConfig.asset
    \/ paymentRequirements.network # paymentConfig.network
    \/ paymentRequirements.payTo # paymentConfig.payTo
    \/ paymentRequirements.maxAmountRequired
           < calculateT2VCostBreakdown(input).totalCredits
               * paymentConfig.pricePerCreditMinorUnits

\* The calls a submitPaidRequest that runs to its end makes, in their order.
CallsInOrder(options) ==
    (IF options.skipVerification THEN <<>> ELSE <<"verify">>)
    \o (IF options.skipSettlement THEN <<>> ELSE <<"settle">>)
    \o <<"submit">>

-----------------------------------------------------------------------------
(* Frame of a session *)

\* C32: once a session is stored, every step of SessionService and of
\* PaymentCoordinator (confirmation, status polling, forwarding, with their
\* notifications) keeps it stored with the id, createdAt, input or job
\* payload, quote and requirement it had; status, history or events, the
\* evidence and result fields and updatedAt are what a step may change.
C32_CreationFieldsNeverChange ==
    [][ /\ \A sid \in DOMAIN sessions :
            /\ sid \in DOMAIN sessions'
            /\ sessions'[sid].id = sessions[sid].id
            /\ sessions'[sid].createdAt = sessions[sid].createdAt
            /\ sessions'[sid].input = sessions[sid].input
            /\ sessions'[sid].quote = sessions[sid].quote
            /\ sessions'[sid].requirement = sessions[sid].requirement
        /\ \A sid \in DOMAIN cache :
            /\ sid \in DOMAIN cache'
            /\ cache'[sid].id = cache[sid].id
            /\ cache'[sid].createdAt = cache[sid].createdAt
            /\ cache'[sid].payload = cache[sid].payload
            /\ cache'[sid].quote = cache[sid].quote
            /\ cache'[sid].requirement = cache[sid].requirement ]_vars

\* A session of SessionService has been confirmed and polled to completion:
\* its status, history, request id, result and updatedAt have changed.
C32_Witness ==
    /\ "s1" \in DOMAIN sessions
    /\ sessions["s1"].status = "completed"
    /\ sessions["s1"].resultUrl # NoValue
    /\ sessions["s1"].samsarRequestId # NoValue
    /\ sessions["s1"].lastPaymentPayload # NoValue
    /\ Len(sessions["s1"].history) >= 4
    /\ sessions["s1"].updatedAt > sessions["s1"].createdAt
    /\ sessions["s1"].requirement = sessionRequirement(sessions["s1"].input)


-----------------------------------------------------------------------------
(* Properties of the cost breakdown *)

\* The rates named per video model; every other model has the default rate.
RatesByModel ==
    [model \in {"VEO3.1I2V", "VEO3.1I2VFAST", "KLINGIMGTOVIDTURBO", "SORA2", "SORA2PRO"} |->
        CASE model = "VEO3.1I2V" -> 60
          [] model = "VEO3.1I2VFAST" -> 30
          [] model = "KLINGIMGTOVIDTURBO" -> 15
          [] model = "SORA2" -> 30
          [] model = "SORA2PRO" -> 70]

\* round(doubled / 2), a half rounded up.
RoundHalf(doubled) ==
    IF doubled % 2 = 0 THEN doubled \div 2 ELSE (doubled + 1) \div 2

\* C33: the breakdown of an input is the function of it that the formula
\* names: durationSeconds is 30 when the duration is missing, not a number or
\* not positive and else the duration rounded down and capped at 180, the rate
\* is the rate of the video model (10 for a model without one, RUNWAYML when
\* none is given), the multiplier is 1.5 for image model HUNYUAN and 1
\* otherwise, and totalCredits is round(durationSeconds * rate * multiplier);
\* the quote is that many credits at the configured price.  Equal inputs so
\* get equal quotes.
C33_QuoteIsFunctionOfInput ==
    lastEvent.op = "quote" =>
        LET input == lastEvent.run
            result == lastEvent.session
            given == "duration" \in DOMAIN input
            usable == /\ given
                      /\ input.duration.type = "number"
                      /\ "nan" \notin DOMAIN input.duration
                      /\ "tenths" \in DOMAIN input.duration => input.duration.tenths > 0
            seconds == IF ~usable THEN 30
                       ELSE IF "tenths" \notin DOMAIN input.duration THEN 180
                       ELSE IF input.duration.tenths >= 1800 THEN 180
                       ELSE input.duration.tenths \div 10
            model == IF "video_model" \in DOMAIN input THEN input.video_model
                     ELSE "RUNWAYML"
            rate == IF model \in DOMAIN RatesByModel THEN RatesByModel[model] ELSE 10
            hunyuan == "image_model" \in DOMAIN input /\ input.image_model = "HUNYUAN"
            credits == IF hunyuan THEN RoundHalf(3 * seconds * rate) ELSE seconds * rate
        IN  /\ result.durationSeconds = seconds
            /\ result.rateCreditsPerSecond = rate
            /\ result.totalCredits = credits
            /\ result.totalMinorUnits = credits * paymentConfig.pricePerCreditMinorUnits

\* A duration of 5.9 seconds with HUNYUAN and KLINGIMGTOVIDTURBO has been
\* quoted: 5 seconds at 15 credits, times 1.5, is 112.5, rounded to 113.
C33_Witness ==
    /\ lastEvent.op = "quote"
    /\ lastEvent.run = [prompt |-> "a", duration |-> Tenths(59),
                        image_model |-> "HUNYUAN", video_model |-> "KLINGIMGTOVIDTURBO"]
    /\ lastEvent.session.durationSeconds = 5
    /\ lastEvent.session.totalCredits = 113


-----------------------------------------------------------------------------
(* Progress of a session under polling *)

\* The session is in creation_pending and no timer polls for it.
PendingUnpolled(sid) ==
    /\ sid \in DOMAIN sessions
    /\ sessions[sid].status = "creation_pending"
    /\ sid \notin DOMAIN pollers

\* C34: a session in creation_pending does not stay there: under fair ticks
\* and a provider that keeps giving final answers it reaches completed or
\* failed and its timer is then removed.  In particular it is never left in
\* creation_pending for ever without a timer that polls for it.
C34_PendingSessionCompletes ==
    \A sid \in SessionIds : PendingUnpolled(sid) ~> ~PendingUnpolled(sid)


\* C40: whenever a timer is registered for a session, the request id its
\* status queries carry is the session's current samsarRequestId.
C40_PollerQueriesCurrentRequest ==
    variant = "SessionService" =>
        \A sid \in DOMAIN pollers :
            /\ sid \in DOMAIN sessions
            /\ pollers[sid] = sessions[sid].samsarRequestId


-----------------------------------------------------------------------------
(* Calls PaymentCoordinator makes for one session *)

\* The settlePayment calls for a session that the state still shows: those
\* outstanding and those answered for a wallet event still in progress.
SettleCalls(sid) ==
    InFlight(walletEvents, sid, {"settle"})
    + Copies(walletEvents, {w \in BagToSet(walletEvents) :
                              /\ w.sid = sid
                              /\ w.pc \in {"verified", "submit"}
                              /\ w.run.settle # NoValue})

\* The submitCreate calls for a session: forwardToSamsar makes one after each
\* forwarding entry it stores.
SubmitCalls(sid) ==
    Cardinality({i \in DOMAIN cache[sid].events : cache[sid].events[i].status = "forwarding"})

\* C36: for one session, SamsarClient.submitCreate is called at most once and
\* the facilitator's settlePayment at most once, however the recordWalletEvent
\* calls interleave.
C36_SubmitsAndSettlesOnce ==
    variant = "PaymentCoordinator" =>
        \A sid \in DOMAIN cache : SubmitCalls(sid) <= 1 /\ SettleCalls(sid) <= 1


-----------------------------------------------------------------------------
(* Timers and transfers of PaymentListenerService *)

\* C35: every interval timer that was started and not cleared is the timer of
\* the worker networkStates holds for its network.  So at most one timer is
\* live per network and none for a network without an entry, also when
\* registerPayment calls for a network not watched yet overlap.
C35_OneLiveTimerPerNetwork ==
    \A w \in DOMAIN states :
        states[w].timer =>
            /\ states[w].network \in DOMAIN networkStates
            /\ networkStates[states[w].network] = w

\* The transaction hash belongs to one log of the chain only.
OneLogOf(transactionHash) ==
    Cardinality({ i \in DOMAIN Flatten(chain) :
                    Flatten(chain)[i].transactionHash = transactionHash }) = 1

\* C37: one transfer log is handed to handlePaymentDetected for at most one
\* session, also when several pending sessions share its asset and payTo and
\* require no more than its value.
C37_OneTransferOneSession ==
    \A i, j \in DOMAIN detections :
        /\ detections[i].transactionHash = detections[j].transactionHash
        /\ OneLogOf(detections[i].transactionHash)
        => detections[i].sessionId = detections[j].sessionId


\* C38: a session is confirmed only by a transfer of a block mined after its
\* registration.  Under BacklogSpec the first block is on the chain before any
\* registerPayment call, so no handlePaymentDetected call carries the hash of
\* a transfer of that block.
C38_OnlyLaterTransfersConfirm ==
    \A i \in DOMAIN detections :
        detections[i].transactionHash \notin HashesOn(SubSeq(chain, 1, 1))

====
